---- MODULE Spec2Model ----
(***************************************************************************)
(* LED-Sign-v0: four 16x16 serpentine panels on one WS281x data line.      *)
(* The module models the coordinate resolvers of every script, the         *)
(* full-canvas rendering pass, the script life cycle (render ticks,        *)
(* signals, exceptions, clearing flushes) and the bounded scene-object     *)
(* populations.                                                            *)
(***************************************************************************)
EXTENDS Integers, Sequences, FiniteSets, TLC

(***************************************************************************)
(* Program constants.                                                      *)
(***************************************************************************)
LED_PANEL_SIZE == 256
NUM_PANELS == 4
LED_COUNT == LED_PANEL_SIZE * NUM_PANELS
PANEL_WIDTH == 16
PANEL_HEIGHT == 16
GRID_COLS == 2
GRID_ROWS == 2
\* 2x2 grid scripts: DISPLAY_WIDTH = PANEL_WIDTH * GRID_COLS, DISPLAY_HEIGHT likewise
GRID_DISPLAY_WIDTH == PANEL_WIDTH * GRID_COLS
GRID_DISPLAY_HEIGHT == PANEL_HEIGHT * GRID_ROWS
\* 1x4 chain scripts: main.py/text.py TOTAL_WIDTH, text03.py DISPLAY_WIDTH
TOTAL_WIDTH == 16 * NUM_PANELS
CHAIN_DISPLAY_WIDTH == PANEL_WIDTH * NUM_PANELS
CHAIN_DISPLAY_HEIGHT == PANEL_HEIGHT

\* get_pixel_index's "not displayable" result
OUT_OF_RANGE == -1

\* population limits and spawn intervals of the scene animations; the
\* intervals are in tenths of a second (0.5 s, 2.0 s)
max_shooting_stars == 5
shooting_star_interval == 5
max_comets == 5
comet_interval == 5
max_planets == 8
planet_interval == 20
max_bubbles == 10
bubble_interval == 5
max_flowers == 10
flower_interval == 5
\* Comet.max_life
comet_max_life == 100

(***************************************************************************)
(* Bounds of the model.                                                    *)
(***************************************************************************)
\* how far outside the canvas the resolver inputs range, on each side
Margin == 2
\* signals delivered to one run
MaxSignals == 2
\* failures of strip.show() in one run
MaxFaults == 1
\* the count of clearing flushes after a signal stops at this value
ClearCap == 3
\* ticks a run is followed beyond the tick that first removes an object
\* (fast run) or first attempts a spawn at the maximum (slow run)
ExtraTicks == 1
\* drawing calls followed in one frame
MaxDraws == 2
\* consecutive clear calls followed
MaxClears == 2
\* flushes followed between resolver calls
MaxFlushes == 2
\* menu choices of one run of text.py, and frames followed in one animation
MaxChoices == 3
MaxFrames == 2
\* widest drawn text of a scroll, in pixels
MaxTextWidth == 3

(***************************************************************************)
(* The resolvers, one per script, as the script computes them.  Python's   *)
(* // and % floor like \div and %.                                         *)
(***************************************************************************)

\* mutant: the bounds check tests the upper bounds only
ball_get_pixel_index_no_lower_bound(x, y) ==
  IF ~(x < GRID_DISPLAY_WIDTH /\ y < GRID_DISPLAY_HEIGHT)
  THEN -1
  ELSE LET panel_x == x \div PANEL_WIDTH
           panel_y == y \div PANEL_HEIGHT
           panel_index == IF panel_y = 0 THEN 2 + panel_x ELSE panel_x
           local_x0 == x % PANEL_WIDTH
           local_y == y % PANEL_HEIGHT
           local_x == IF local_y % 2 = 1 THEN PANEL_WIDTH - 1 - local_x0 ELSE local_x0
       IN (panel_index * LED_PANEL_SIZE) + (local_y * PANEL_WIDTH) + local_x

\* mutant: the panel rows are taken the other way round ([0][1] on panel_y = 0)
ball_get_pixel_index_rows_swapped(x, y) ==
  IF ~(0 <= x /\ x < GRID_DISPLAY_WIDTH /\ 0 <= y /\ y < GRID_DISPLAY_HEIGHT)
  THEN -1
  ELSE LET panel_x == x \div PANEL_WIDTH
           panel_y == y \div PANEL_HEIGHT
           panel_index == IF panel_y = 0 THEN panel_x ELSE 2 + panel_x
           local_x0 == x % PANEL_WIDTH
           local_y == y % PANEL_HEIGHT
           local_x == IF local_y % 2 = 1 THEN PANEL_WIDTH - 1 - local_x0 ELSE local_x0
       IN (panel_index * LED_PANEL_SIZE) + (local_y * PANEL_WIDTH) + local_x

\* ball.py: panels [2][3] on the top row (panel_y = 0), [0][1] below
ball_get_pixel_index(x, y) ==
  IF ~(0 <= x /\ x < GRID_DISPLAY_WIDTH /\ 0 <= y /\ y < GRID_DISPLAY_HEIGHT)
  THEN -1
  ELSE LET panel_x == x \div PANEL_WIDTH
           panel_y == y \div PANEL_HEIGHT
           panel_index == IF panel_y = 0 THEN 2 + panel_x ELSE panel_x
           local_x0 == x % PANEL_WIDTH
           local_y == y % PANEL_HEIGHT
           local_x == IF local_y % 2 = 1 THEN PANEL_WIDTH - 1 - local_x0 ELSE local_x0
           panel_offset == panel_index * LED_PANEL_SIZE
           local_offset == (local_y * PANEL_WIDTH) + local_x
       IN panel_offset + local_offset

video_get_pixel_index(x, y) ==
  IF ~(0 <= x /\ x < GRID_DISPLAY_WIDTH /\ 0 <= y /\ y < GRID_DISPLAY_HEIGHT)
  THEN -1
  ELSE LET panel_x == x \div PANEL_WIDTH
           panel_y == y \div PANEL_HEIGHT
           panel_index == IF panel_y = 0 THEN 2 + panel_x ELSE panel_x
           local_x0 == x % PANEL_WIDTH
           local_y == y % PANEL_HEIGHT
           local_x == IF local_y % 2 = 1 THEN PANEL_WIDTH - 1 - local_x0 ELSE local_x0
           panel_offset == panel_index * LED_PANEL_SIZE
           local_offset == (local_y * PANEL_WIDTH) + local_x
       IN panel_offset + local_offset

\* text0.py with panels of an odd number of rows
text0_get_pixel_index_odd_panel_height(x, y) ==
  IF ~(0 <= x /\ x < GRID_DISPLAY_WIDTH /\ 0 <= y /\ y < GRID_DISPLAY_HEIGHT)
  THEN -1
  ELSE LET panel_x == x \div PANEL_WIDTH
           panel_y == y \div PANEL_HEIGHT
           panel_index == (panel_y * GRID_COLS) + panel_x
           local_x0 == x % PANEL_WIDTH
           local_y == y % (PANEL_HEIGHT - 1)
           local_x == IF local_y % 2 = 1 THEN PANEL_WIDTH - 1 - local_x0 ELSE local_x0
           panel_offset == panel_index * LED_PANEL_SIZE
           local_offset == (local_y * PANEL_WIDTH) + local_x
       IN panel_offset + local_offset

\* text0.py: row-major panel order
text0_get_pixel_index(x, y) ==
  IF ~(0 <= x /\ x < GRID_DISPLAY_WIDTH /\ 0 <= y /\ y < GRID_DISPLAY_HEIGHT)
  THEN -1
  ELSE LET panel_x == x \div PANEL_WIDTH
           panel_y == y \div PANEL_HEIGHT
           panel_index == (panel_y * GRID_COLS) + panel_x
           local_x0 == x % PANEL_WIDTH
           local_y == y % PANEL_HEIGHT
           local_x == IF local_y % 2 = 1 THEN PANEL_WIDTH - 1 - local_x0 ELSE local_x0
           panel_offset == panel_index * LED_PANEL_SIZE
           local_offset == (local_y * PANEL_WIDTH) + local_x
       IN panel_offset + local_offset

\* text01.py: panels swapped within each row
text01_get_pixel_index(x, y) ==
  IF ~(0 <= x /\ x < GRID_DISPLAY_WIDTH /\ 0 <= y /\ y < GRID_DISPLAY_HEIGHT)
  THEN -1
  ELSE LET local_x0 == x % PANEL_WIDTH
           local_y == y % PANEL_HEIGHT
           panel_x0 == x \div PANEL_WIDTH
           panel_y == y \div PANEL_HEIGHT
           panel_x == 1 - panel_x0
           local_x == IF local_y % 2 = 1 THEN PANEL_WIDTH - 1 - local_x0 ELSE local_x0
           panel_index == (panel_y * GRID_COLS) + panel_x
           panel_offset == panel_index * LED_PANEL_SIZE
           local_offset == (local_y * PANEL_WIDTH) + local_x
       IN panel_offset + local_offset

\* text02.py: every row mirrored inside its panel, then the serpentine flip
text02_get_pixel_index(x, y) ==
  IF ~(0 <= x /\ x < GRID_DISPLAY_WIDTH /\ 0 <= y /\ y < GRID_DISPLAY_HEIGHT)
  THEN -1
  ELSE LET panel_x == x \div PANEL_WIDTH
           panel_y == y \div PANEL_HEIGHT
           local_x0 == (PANEL_WIDTH - 1) - (x % PANEL_WIDTH)
           local_y == y % PANEL_HEIGHT
           local_x == IF local_y % 2 = 1 THEN PANEL_WIDTH - 1 - local_x0 ELSE local_x0
           panel_index == (panel_y * GRID_COLS) + panel_x
           panel_offset == panel_index * LED_PANEL_SIZE
           local_offset == (local_y * PANEL_WIDTH) + local_x
       IN panel_offset + local_offset

\* mutant: the serpentine flip is off by one (PANEL_WIDTH - local_x)
stars_get_pixel_index_flip_off_by_one(x, y) ==
  IF ~(0 <= x /\ x < GRID_DISPLAY_WIDTH /\ 0 <= y /\ y < GRID_DISPLAY_HEIGHT)
  THEN -1
  ELSE LET panel_x == x \div PANEL_WIDTH
           panel_y == y \div PANEL_HEIGHT
           local_x0 == (PANEL_WIDTH - 1) - (x % PANEL_WIDTH)
           local_y == y % PANEL_HEIGHT
           local_x == IF local_y % 2 = 1 THEN PANEL_WIDTH - local_x0 ELSE local_x0
           panel_index == (panel_y * GRID_COLS) + panel_x
       IN (panel_index * LED_PANEL_SIZE) + (local_y * PANEL_WIDTH) + local_x

stars_get_pixel_index(x, y) ==
  IF ~(0 <= x /\ x < GRID_DISPLAY_WIDTH /\ 0 <= y /\ y < GRID_DISPLAY_HEIGHT)
  THEN -1
  ELSE LET panel_x == x \div PANEL_WIDTH
           panel_y == y \div PANEL_HEIGHT
           local_x0 == (PANEL_WIDTH - 1) - (x % PANEL_WIDTH)
           local_y == y % PANEL_HEIGHT
           local_x == IF local_y % 2 = 1 THEN PANEL_WIDTH - 1 - local_x0 ELSE local_x0
           panel_index == (panel_y * GRID_COLS) + panel_x
           panel_offset == panel_index * LED_PANEL_SIZE
           local_offset == (local_y * PANEL_WIDTH) + local_x
       IN panel_offset + local_offset

stars0_get_pixel_index(x, y) ==
  IF ~(0 <= x /\ x < GRID_DISPLAY_WIDTH /\ 0 <= y /\ y < GRID_DISPLAY_HEIGHT)
  THEN -1
  ELSE LET panel_x == x \div PANEL_WIDTH
           panel_y == y \div PANEL_HEIGHT
           local_x0 == (PANEL_WIDTH - 1) - (x % PANEL_WIDTH)
           local_y == y % PANEL_HEIGHT
           local_x == IF local_y % 2 = 1 THEN PANEL_WIDTH - 1 - local_x0 ELSE local_x0
           panel_index == (panel_y * GRID_COLS) + panel_x
           panel_offset == panel_index * LED_PANEL_SIZE
           local_offset == (local_y * PANEL_WIDTH) + local_x
       IN panel_offset + local_offset

stars01_get_pixel_index(x, y) ==
  IF ~(0 <= x /\ x < GRID_DISPLAY_WIDTH /\ 0 <= y /\ y < GRID_DISPLAY_HEIGHT)
  THEN -1
  ELSE LET panel_x == x \div PANEL_WIDTH
           panel_y == y \div PANEL_HEIGHT
           local_x0 == (PANEL_WIDTH - 1) - (x % PANEL_WIDTH)
           local_y == y % PANEL_HEIGHT
           local_x == IF local_y % 2 = 1 THEN PANEL_WIDTH - 1 - local_x0 ELSE local_x0
           panel_index == (panel_y * GRID_COLS) + panel_x
           panel_offset == panel_index * LED_PANEL_SIZE
           local_offset == (local_y * PANEL_WIDTH) + local_x
       IN panel_offset + local_offset

\* shark.py with a canvas test that stops one column short
shark_get_pixel_index_short_canvas(x, y) ==
  IF ~(0 <= x /\ x < GRID_DISPLAY_WIDTH - 1 /\ 0 <= y /\ y < GRID_DISPLAY_HEIGHT)
  THEN -1
  ELSE LET panel_x == x \div PANEL_WIDTH
           panel_y == y \div PANEL_HEIGHT
           local_x0 == (PANEL_WIDTH - 1) - (x % PANEL_WIDTH)
           local_y == y % PANEL_HEIGHT
           local_x == IF local_y % 2 = 1 THEN PANEL_WIDTH - 1 - local_x0 ELSE local_x0
           panel_index == (panel_y * GRID_COLS) + panel_x
           panel_offset == panel_index * LED_PANEL_SIZE
           local_offset == (local_y * PANEL_WIDTH) + local_x
       IN panel_offset + local_offset

shark_get_pixel_index(x, y) ==
  IF ~(0 <= x /\ x < GRID_DISPLAY_WIDTH /\ 0 <= y /\ y < GRID_DISPLAY_HEIGHT)
  THEN -1
  ELSE LET panel_x == x \div PANEL_WIDTH
           panel_y == y \div PANEL_HEIGHT
           local_x0 == (PANEL_WIDTH - 1) - (x % PANEL_WIDTH)
           local_y == y % PANEL_HEIGHT
           local_x == IF local_y % 2 = 1 THEN PANEL_WIDTH - 1 - local_x0 ELSE local_x0
           panel_index == (panel_y * GRID_COLS) + panel_x
           panel_offset == panel_index * LED_PANEL_SIZE
           local_offset == (local_y * PANEL_WIDTH) + local_x
       IN panel_offset + local_offset

rabit_get_pixel_index(x, y) ==
  IF ~(0 <= x /\ x < GRID_DISPLAY_WIDTH /\ 0 <= y /\ y < GRID_DISPLAY_HEIGHT)
  THEN -1
  ELSE LET panel_x == x \div PANEL_WIDTH
           panel_y == y \div PANEL_HEIGHT
           local_x0 == (PANEL_WIDTH - 1) - (x % PANEL_WIDTH)
           local_y == y % PANEL_HEIGHT
           local_x == IF local_y % 2 = 1 THEN PANEL_WIDTH - 1 - local_x0 ELSE local_x0
           panel_index == (panel_y * GRID_COLS) + panel_x
           panel_offset == panel_index * LED_PANEL_SIZE
           local_offset == (local_y * PANEL_WIDTH) + local_x
       IN panel_offset + local_offset

\* main.py: 1x4 chain, 64x16 canvas, parity from the row y
main_get_pixel_index(x, y) ==
  IF ~(0 <= x /\ x < TOTAL_WIDTH /\ 0 <= y /\ y < PANEL_HEIGHT)
  THEN -1
  ELSE LET panel == x \div 16
           local_x0 == x % 16
           local_x == IF y % 2 = 1 THEN 15 - local_x0 ELSE local_x0
           pixel_index == (panel * LED_PANEL_SIZE) + (y * 16) + local_x
       IN IF 0 <= pixel_index /\ pixel_index < LED_COUNT THEN pixel_index ELSE -1

\* mutant: the serpentine flip is off by one (16 - local_x)
text_get_pixel_index_flip_off_by_one(x, y) ==
  IF ~(0 <= x /\ x < TOTAL_WIDTH /\ 0 <= y /\ y < PANEL_HEIGHT)
  THEN -1
  ELSE LET panel == x \div 16
           local_x0 == x % 16
           local_x == IF y % 2 = 1 THEN 16 - local_x0 ELSE local_x0
           pixel_index == (panel * LED_PANEL_SIZE) + (y * 16) + local_x
       IN IF 0 <= pixel_index /\ pixel_index < LED_COUNT THEN pixel_index ELSE -1

text_get_pixel_index(x, y) ==
  IF ~(0 <= x /\ x < TOTAL_WIDTH /\ 0 <= y /\ y < PANEL_HEIGHT)
  THEN -1
  ELSE LET panel == x \div 16
           local_x0 == x % 16
           local_x == IF y % 2 = 1 THEN 15 - local_x0 ELSE local_x0
           pixel_index == (panel * LED_PANEL_SIZE) + (y * 16) + local_x
       IN IF 0 <= pixel_index /\ pixel_index < LED_COUNT THEN pixel_index ELSE -1

\* mutant: the y axis is not flipped
text03_get_pixel_index_no_flip(x, y) ==
  IF ~(0 <= x /\ x < CHAIN_DISPLAY_WIDTH /\ 0 <= y /\ y < CHAIN_DISPLAY_HEIGHT)
  THEN -1
  ELSE LET panel_x == x \div PANEL_WIDTH
           local_x0 == x % PANEL_WIDTH
           local_y == y
           local_x == IF local_y % 2 = 1 THEN PANEL_WIDTH - 1 - local_x0 ELSE local_x0
       IN (panel_x * LED_PANEL_SIZE) + (local_y * PANEL_WIDTH) + local_x

\* text03.py: 1x4 chain with the y axis flipped before the parity test
text03_get_pixel_index(x, y) ==
  IF ~(0 <= x /\ x < CHAIN_DISPLAY_WIDTH /\ 0 <= y /\ y < CHAIN_DISPLAY_HEIGHT)
  THEN -1
  ELSE LET yf == CHAIN_DISPLAY_HEIGHT - 1 - y
           panel_x == x \div PANEL_WIDTH
           local_x0 == x % PANEL_WIDTH
           local_y == yf
           local_x == IF local_y % 2 = 1 THEN PANEL_WIDTH - 1 - local_x0 ELSE local_x0
           panel_offset == panel_x * LED_PANEL_SIZE
           local_offset == (local_y * PANEL_WIDTH) + local_x
       IN panel_offset + local_offset

text04_get_pixel_index(x, y) ==
  IF ~(0 <= x /\ x < CHAIN_DISPLAY_WIDTH /\ 0 <= y /\ y < CHAIN_DISPLAY_HEIGHT)
  THEN -1
  ELSE LET yf == CHAIN_DISPLAY_HEIGHT - 1 - y
           panel_x == x \div PANEL_WIDTH
           local_x0 == x % PANEL_WIDTH
           local_y == yf
           local_x == IF local_y % 2 = 1 THEN PANEL_WIDTH - 1 - local_x0 ELSE local_x0
           panel_offset == panel_x * LED_PANEL_SIZE
           local_offset == (local_y * PANEL_WIDTH) + local_x
       IN panel_offset + local_offset

textfire_get_pixel_index(x, y) ==
  IF ~(0 <= x /\ x < CHAIN_DISPLAY_WIDTH /\ 0 <= y /\ y < CHAIN_DISPLAY_HEIGHT)
  THEN -1
  ELSE LET yf == CHAIN_DISPLAY_HEIGHT - 1 - y
           panel_x == x \div PANEL_WIDTH
           local_x0 == x % PANEL_WIDTH
           local_y == yf
           local_x == IF local_y % 2 = 1 THEN PANEL_WIDTH - 1 - local_x0 ELSE local_x0
           panel_offset == panel_x * LED_PANEL_SIZE
           local_offset == (local_y * PANEL_WIDTH) + local_x
       IN panel_offset + local_offset

\* mutant: the even rows are reversed instead of the odd ones
chain_get_pixel_index_even_rows(x, y, panel) ==
  IF ~(0 <= x /\ x < 16 /\ 0 <= y /\ y < 16)
  THEN -1
  ELSE LET x1 == IF y % 2 = 0 THEN 15 - x ELSE x
           index == (panel * LED_PANEL_SIZE) + (y * 16) + x1
       IN IF 0 <= index /\ index < LED_COUNT THEN index ELSE -1

\* chain.py: the resolver of one panel of the chain
chain_get_pixel_index(x, y, panel) ==
  IF ~(0 <= x /\ x < 16 /\ 0 <= y /\ y < 16)
  THEN -1
  ELSE LET x1 == IF y % 2 = 1 THEN 15 - x ELSE x
           index == (panel * LED_PANEL_SIZE) + (y * 16) + x1
       IN IF 0 <= index /\ index < LED_COUNT THEN index ELSE -1

\* angle.py: the index set_pixel_in_panel hands to strip.setPixelColor, or
\* OUT_OF_RANGE when it returns without a write
set_pixel_in_panel(panel, x, y) ==
  IF ~(0 <= x /\ x < 16 /\ 0 <= y /\ y < 16)
  THEN OUT_OF_RANGE
  ELSE LET base_index == panel * 256
           x1 == IF y % 2 = 1 THEN 15 - x ELSE x
       IN base_index + (y * 16) + x1


(***************************************************************************)
(* State.                                                                  *)
(***************************************************************************)
VARIABLES
  \* one resolver call: script, arguments, result, position
  rvariant, rx, ry, rpanel, ridx, rpc,
  \* one full-canvas rendering pass: script, loop position, the device
  \* indices written so far with the coordinate that wrote each, the number
  \* of setPixelColor calls, whether a write hit an index written before
  pvariant, px, py, powner, pwrites, pcollide, ppc,
  \* one run of a script:
  script,      \* which script runs
  pc,          \* the statement the main thread is at; "exited" once the process ended
  stack,       \* return addresses of the calls in progress
  wmid,        \* the main thread is inside the pixel loop of the statement at pc
  pending,     \* the exception a finally block re-raises when it ends
  hpc,         \* position of the signal handler, "none" when no handler runs
  installed,   \* a Python handler is installed for SIGINT (and SIGTERM in main.py/text.py)
  bound,       \* the module-level name controller is bound
  running,     \* self.running of main.py/text.py
  buf,         \* device buffer: "black", "frame", or "mixed" inside a pixel loop
  lastFlush,   \* the last show(): "none", "frame" (render code) or "clear" (clear routine)
  shown,       \* the buffer the last show() sent
  tickLog,     \* device calls of the render loop in the current tick: "w"rites, "s"how
  signals,     \* signals delivered so far
  faults,      \* device failures so far
  sigInLoop,   \* a signal arrived while the animation loop was running
  handled,     \* a delivered signal has been handled (handler ended or KeyboardInterrupt raised)
  resumed,     \* the render code wrote or flushed a frame after a signal was handled
  afterFault,  \* the render code wrote or flushed a frame after a device failure
  clearsAfterSignal,  \* clearing flushes since the first signal
  endKind,     \* how the process ended: "running", "return", an exception, "killed"
  \* one population of scene objects:
  kind,        \* "shooting_star", "comet", "planet", "bubble" or "flower"
  objs,        \* the live list, oldest first: [v |-> life or y, speed |-> per-tick step]
  t,           \* current_time of the last tick, in tenths of a second
  last_spawn,  \* last_shooting_star / last_comet / last_planet / last_bubble / last_flower
  dt,          \* the time one iteration of the main loop takes in this run
  ticks,       \* iterations of the main loop so far
  attempt,     \* the last tick's spawn attempt: "none", "added" or "full"
  before,      \* the live list and the spawn timer when the last tick reached its spawn block
  gone,        \* one object a removal step has dropped, by its time of spawn; 0 while the run follows none
  spawned,     \* current_time of the last two successful spawns, 0 for none
  \* one colour handed to the device:
  site,        \* the code that computed it, "none" before the first
  chan,        \* the r, g, b arguments of Color(...)
  cmult,       \* the intensity or brightness multiplier it applied, in 1/Unit
  cbase,       \* the largest channel value the multiplier was applied to
  \* the draws of one frame:
  dsite,       \* the code that drew last, "none" before the first draw
  dpts,        \* the coordinates it resolved, in the order of its loops
  dlog,        \* the indices it gave to strip.setPixelColor, in order
  dbuf,        \* device buffer: the indices written so far in the frame
  dprev,       \* the device buffer before the last draw
  dn,          \* draws so far
  \* consecutive calls of a clear routine:
  kpc,         \* position in the routine: "idle", "loop" or "returned"
  ki,          \* the loop variable i
  kcalls,      \* device calls of the call in progress or just returned, in order
  kprev,       \* device calls of the call before it
  klit,        \* device buffer: the indices of the pixels that are not black
  kshown,      \* the buffer the last show() sent
  kn,          \* calls that have returned
  \* one controller and its resolver calls:
  oscript,     \* the script whose controller it is
  oself,       \* the controller's topology attributes, as __init__ set them
  obuf,        \* device buffer: the indices the render code wrote
  oflushes,    \* strip.show() calls so far
  ofirst,      \* the first resolver call: x, y and the index it returned
  ocall,       \* the last resolver call, with the controller and device state it found
  opc,         \* what ran last: "init", "get_pixel_index", "setPixelColor", "show" or "clear_display"
  \* the menu of text.py and the animation it started:
  xpc,         \* "menu", or the animation that runs: "pulse", "rainbow", "sparkle"
  ximage,      \* the canvas pixels the text image of the animation covers
  xlit,        \* device buffer: the indices of the pixels that are not black
  xshown,      \* the buffer the last show() sent
  xframes,     \* frames the animation has flushed
  xchoices,    \* menu choices so far
  \* the locals of NeoPixelController.bouncing_ball, floats in 1/Milli:
  bpc,         \* the next step of the loop body: "physics", "collide", "trail", "render" or "show"
  bx,          \* x
  by,          \* y
  bdx,         \* dx
  bdy,         \* dy
  btrail,      \* trail, newest position first
  bleft,       \* dx, dy as the last boundary step left them, and whether it clamped y to the bottom row
  bused,       \* dx, dy as the last position update read them
  \* one run of a horizontally scrolling script:
  fscript,     \* "text03", "text04" or "textfire"
  ftext,       \* width in pixels of the drawn text
  foffset,     \* offset of the last frame of the pass, -1 before the first
  fbuf,        \* device buffer: per index the offset of the frame that wrote it, -1 if black
  fprev,       \* the device buffer as the frame before left it
  fpc          \* "scroll" inside the frame loop, "idle" outside

rvars == <<rvariant, rx, ry, rpanel, ridx, rpc>>
pvars == <<pvariant, px, py, powner, pwrites, pcollide, ppc>>
lvars == <<script, pc, stack, wmid, pending, hpc, installed, bound, running, buf,
           lastFlush, shown, tickLog, signals, faults, sigInLoop, handled, resumed,
           afterFault, clearsAfterSignal, endKind>>
popvars == <<kind, objs, t, last_spawn, dt, ticks, attempt, before, gone,
             spawned>>
cvars == <<site, chan, cmult, cbase>>
dvars == <<dsite, dpts, dlog, dbuf, dprev, dn>>
kvars == <<kpc, ki, kcalls, kprev, klit, kshown, kn>>
ovars == <<oscript, oself, obuf, oflushes, ofirst, ocall, opc>>
xvars == <<xpc, ximage, xlit, xshown, xframes, xchoices>>
bvars == <<bpc, bx, by, bdx, bdy, btrail, bleft, bused>>
fvars == <<fscript, ftext, foffset, fbuf, fprev, fpc>>
vars == <<rvars, pvars, lvars, popvars, cvars, dvars, kvars, ovars, xvars, bvars, fvars>>

\* what each specification leaves alone
notResolver == <<pvars, lvars, popvars, cvars, dvars, kvars, ovars, xvars, bvars, fvars>>
notPass == <<rvars, lvars, popvars, cvars, dvars, kvars, ovars, xvars, bvars, fvars>>
notRun == <<rvars, pvars, popvars, cvars, dvars, kvars, ovars, xvars, bvars, fvars>>
notPop == <<rvars, pvars, lvars, cvars, dvars, kvars, ovars, xvars, bvars, fvars>>
notColour == <<rvars, pvars, lvars, popvars, dvars, kvars, ovars, xvars, bvars, fvars>>
notDraw == <<rvars, pvars, lvars, popvars, cvars, kvars, ovars, xvars, bvars, fvars>>
notClear == <<rvars, pvars, lvars, popvars, cvars, dvars, ovars, xvars, bvars, fvars>>
notTopology == <<rvars, pvars, lvars, popvars, cvars, dvars, kvars, xvars, bvars, fvars>>
notText == <<rvars, pvars, lvars, popvars, cvars, dvars, kvars, ovars, bvars, fvars>>
notBall == <<rvars, pvars, lvars, popvars, cvars, dvars, kvars, ovars, xvars, fvars>>
notScroll == <<rvars, pvars, lvars, popvars, cvars, dvars, kvars, ovars, xvars, bvars>>

GridVariants ==
  {"ball", "video", "text0", "text01", "text02",
   "stars", "stars0", "stars01", "shark", "rabit"}
ChainVariants == {"main", "text", "text03", "text04", "textfire"}
CanvasVariants == GridVariants \cup ChainVariants
PanelVariants == {"chain", "angle"}

\* canvas of each script
Width(v) ==
  IF v \in GridVariants THEN GRID_DISPLAY_WIDTH
  ELSE IF v \in {"main", "text"} THEN TOTAL_WIDTH
  ELSE IF v \in ChainVariants THEN CHAIN_DISPLAY_WIDTH
  ELSE PANEL_WIDTH
Height(v) ==
  IF v \in GridVariants THEN GRID_DISPLAY_HEIGHT
  ELSE IF v \in {"main", "text"} THEN PANEL_HEIGHT
  ELSE IF v \in ChainVariants THEN CHAIN_DISPLAY_HEIGHT
  ELSE PANEL_HEIGHT
InCanvas(v, x, y) == 0 <= x /\ x < Width(v) /\ 0 <= y /\ y < Height(v)

\* the get_pixel_index of script v
Resolve(v, x, y) ==
  CASE v = "ball" -> ball_get_pixel_index(x, y)
    [] v = "video" -> video_get_pixel_index(x, y)
    [] v = "text0" -> text0_get_pixel_index(x, y)
    [] v = "text01" -> text01_get_pixel_index(x, y)
    [] v = "text02" -> text02_get_pixel_index(x, y)
    [] v = "stars" -> stars_get_pixel_index(x, y)
    [] v = "stars0" -> stars0_get_pixel_index(x, y)
    [] v = "stars01" -> stars01_get_pixel_index(x, y)
    [] v = "shark" -> shark_get_pixel_index(x, y)
    [] v = "rabit" -> rabit_get_pixel_index(x, y)
    [] v = "main" -> main_get_pixel_index(x, y)
    [] v = "text" -> text_get_pixel_index(x, y)
    [] v = "text03" -> text03_get_pixel_index(x, y)
    [] v = "text04" -> text04_get_pixel_index(x, y)
    [] v = "textfire" -> textfire_get_pixel_index(x, y)

\* the per-panel resolver of script v
ResolvePanel(v, x, y, panel) ==
  IF v = "chain" THEN chain_get_pixel_index(x, y, panel)
  ELSE set_pixel_in_panel(panel, x, y)

(***************************************************************************)
(* SpecResolver: one call of a resolver on arguments inside and outside    *)
(* the canvas.                                                             *)
(***************************************************************************)
RunIdle ==
  /\ script = "none" /\ pc = "idle" /\ stack = <<>> /\ wmid = FALSE
  /\ pending = "none" /\ hpc = "none" /\ installed = FALSE /\ bound = FALSE
  /\ running = FALSE /\ buf = "black" /\ lastFlush = "none" /\ shown = "none"
  /\ tickLog = <<>> /\ signals = 0 /\ faults = 0 /\ sigInLoop = FALSE
  /\ handled = FALSE /\ resumed = FALSE /\ afterFault = FALSE
  /\ clearsAfterSignal = 0
  /\ endKind = "running"

PopIdle ==
  /\ kind = "none" /\ objs = <<>> /\ t = 0 /\ last_spawn = 0 /\ dt = 0
  /\ ticks = 0 /\ attempt = "none" /\ before = [objs |-> <<>>, last |-> 0]
  /\ gone = 0 /\ spawned = <<0, 0>>

PassIdle ==
  /\ pvariant = "ball" /\ px = 0 /\ py = 0 /\ powner = <<>>
  /\ pwrites = 0 /\ pcollide = FALSE /\ ppc = "idle"

ColourIdle ==
  /\ site = "none" /\ chan = <<0, 0, 0>> /\ cmult = 0 /\ cbase = 0

ScrollIdle ==
  /\ fscript = "none" /\ ftext = 0 /\ foffset = 0 /\ fbuf = <<>> /\ fprev = <<>>
  /\ fpc = "idle"

BallIdle ==
  /\ bpc = "idle" /\ bx = 0 /\ by = 0 /\ bdx = 0 /\ bdy = 0 /\ btrail = <<>>
  /\ bleft = <<>> /\ bused = <<>>

TextIdle ==
  /\ xpc = "idle" /\ ximage = {} /\ xlit = {} /\ xshown = {} /\ xframes = 0
  /\ xchoices = 0

TopologyIdle ==
  /\ oscript = "none" /\ oself = <<>> /\ obuf = {} /\ oflushes = 0
  /\ ofirst = <<>> /\ ocall = <<>> /\ opc = "idle"

ClearIdle ==
  /\ kpc = "idle" /\ ki = 0 /\ kcalls = <<>> /\ kprev = <<>> /\ klit = {}
  /\ kshown = {} /\ kn = 0

DrawIdle ==
  /\ dsite = "none" /\ dpts = <<>> /\ dlog = <<>> /\ dbuf = {} /\ dprev = {}
  /\ dn = 0

InitResolver ==
  /\ rvariant \in CanvasVariants \cup PanelVariants
  /\ rx \in (0 - Margin)..(Width(rvariant) - 1 + Margin)
  /\ ry \in (0 - Margin)..(Height(rvariant) - 1 + Margin)
  /\ rpanel \in (IF rvariant \in PanelVariants THEN 0..(NUM_PANELS - 1) ELSE {0})
  /\ ridx = 0
  /\ rpc = "call"
  /\ PassIdle
  /\ RunIdle
  /\ PopIdle
  /\ ColourIdle
  /\ DrawIdle
  /\ ClearIdle
  /\ TopologyIdle
  /\ TextIdle
  /\ BallIdle
  /\ ScrollIdle

CallResolver ==
  /\ rpc = "call"
  /\ rvariant \in CanvasVariants
  /\ ridx' = Resolve(rvariant, rx, ry)
  /\ rpc' = "done"
  /\ UNCHANGED <<rvariant, rx, ry, rpanel, notResolver>>

CallPanelResolver ==
  /\ rpc = "call"
  /\ rvariant \in PanelVariants
  /\ ridx' = ResolvePanel(rvariant, rx, ry, rpanel)
  /\ rpc' = "done"
  /\ UNCHANGED <<rvariant, rx, ry, rpanel, notResolver>>

NextResolver == CallResolver \/ CallPanelResolver

SpecResolver == InitResolver /\ [][NextResolver]_vars

(***************************************************************************)
(* SpecPass: the full-canvas rendering pass, for y in range(HEIGHT):       *)
(* for x in range(WIDTH): resolve, write if the index is >= 0; then show.  *)
(***************************************************************************)
ResolverIdle ==
  /\ rvariant = "ball" /\ rx = 0 /\ ry = 0 /\ rpanel = 0 /\ ridx = 0 /\ rpc = "idle"

InitPass ==
  /\ pvariant \in CanvasVariants
  /\ px = 0 /\ py = 0
  /\ powner = <<>>
  /\ pwrites = 0
  /\ pcollide = FALSE
  /\ ppc = "pass"
  /\ ResolverIdle
  /\ RunIdle
  /\ PopIdle
  /\ ColourIdle
  /\ DrawIdle
  /\ ClearIdle
  /\ TopologyIdle
  /\ TextIdle
  /\ BallIdle
  /\ ScrollIdle

PassPixel ==
  /\ ppc = "pass"
  /\ py < Height(pvariant)
  /\ LET pixel_index == Resolve(pvariant, px, py)
     IN IF pixel_index >= 0
        THEN /\ powner' = [i \in DOMAIN powner \cup {pixel_index} |->
                             IF i = pixel_index THEN <<px, py>> ELSE powner[i]]
             /\ pwrites' = pwrites + 1
             /\ pcollide' = (pcollide \/ pixel_index \in DOMAIN powner)
        ELSE UNCHANGED <<powner, pwrites, pcollide>>
  /\ IF px + 1 < Width(pvariant)
     THEN px' = px + 1 /\ py' = py
     ELSE px' = 0 /\ py' = py + 1
  /\ UNCHANGED <<pvariant, ppc, notPass>>

PassShow ==
  /\ ppc = "pass"
  /\ py = Height(pvariant)
  /\ ppc' = "shown"
  /\ UNCHANGED <<pvariant, px, py, powner, pwrites, pcollide, notPass>>

NextPass == PassPixel \/ PassShow

SpecPass == InitPass /\ [][NextPass]_vars


(***************************************************************************)
(* SpecRun: the life cycle of one run of a script, from its first          *)
(* statement to the end of the process.  The main thread walks the         *)
(* script's statements; a signal can arrive between any two of its steps   *)
(* and inside a pixel loop.  A Python signal handler runs on the main      *)
(* thread, which is suspended until the handler ends; what the handler     *)
(* raises is raised at the interrupted statement.  strip.show() is one     *)
(* call into the driver, so it is one step.                                *)
(*                                                                         *)
(* A script is a table: statement name |-> [op, next, outs, run, ctx, zone].*)
(*   op    what the statement does (see the actions below)                 *)
(*   next  the statement that follows                                      *)
(*   outs  the other successors (branch targets, loop exit, return address)*)
(*   run   the loop's guard tests self.running                             *)
(*   ctx   the enclosing try blocks' clauses, innermost first              *)
(*   zone  "tick" inside a render tick, "loop" inside the animation loop   *)
(*         but outside a tick, "out" elsewhere                             *)
(***************************************************************************)
St(op, next, outs, run, ctx, zone) ==
  [op |-> op, next |-> next, outs |-> outs, run |-> run, ctx |-> ctx, zone |-> zone]

\* except <classes>: -> to
H(catch, to) == [catch |-> catch, to |-> to, fin |-> FALSE]

Exceptions == {"KeyboardInterrupt", "SystemExit", "Exception"}

\* finally: -> to, entered with the exception pending
F(to) == [catch |-> Exceptions, to |-> to, fin |-> TRUE]

\* except KeyboardInterrupt:
KBD == {"KeyboardInterrupt"}
\* except Exception: catches neither KeyboardInterrupt nor SystemExit
EXC == {"Exception"}
\* a bare except: catches every BaseException
ALL == Exceptions

Uncaught == [catch |-> {}, to |-> "exited", fin |-> FALSE]

\* the clause that receives exception e raised under ctx
RECURSIVE Find(_, _)
Find(ctx, e) ==
  IF ctx = <<>> THEN Uncaught
  ELSE IF e \in Head(ctx).catch THEN Head(ctx)
  ELSE Find(Tail(ctx), e)

(***************************************************************************)
(* stars.py: main() and the device calls of update_display().              *)
(***************************************************************************)
stars_main ==
  LET T == <<H(KBD, "except")>> IN
     "start"       :> St("bind", "install", {}, FALSE, <<>>, "out")    \* L221-222 controller = StarController()
  @@ "install"     :> St("install", "tick", {}, FALSE, <<>>, "out")    \* L223 signal.signal(SIGINT, signal_handler)
  @@ "tick"        :> St("loop", "draw", {}, FALSE, T, "tick")         \* L225-229 try: while True: update_display(current_time)
  @@ "draw"        :> St("writes", "show", {}, FALSE, T, "tick")       \* L181-211 background, stars, shooting stars
  @@ "show"        :> St("show", "sleep", {}, FALSE, T, "tick")        \* L213 strip.show()
  @@ "sleep"       :> St("nop", "tick", {}, FALSE, T, "tick")          \* L230 time.sleep(0.03)
  @@ "except"      :> St("cwrite", "except_show", {}, FALSE, <<>>, "out")  \* L231-232 clear_display(): L174-175
  @@ "except_show" :> St("cshow", "end", {}, FALSE, <<>>, "out")       \* L176 strip.show()
  @@ "end"         :> St("exit", "end", {}, FALSE, <<>>, "out")        \* L235 main() returns

(***************************************************************************)
(* main.py: main() with its menu and the five animations.                  *)
(***************************************************************************)
main_main ==
  LET T == <<H(KBD, "except_kbd"), H(EXC, "except_exc"), F("finally")>>
      TF == <<F("finally")>>
  IN
     "start"        :> St("ctor", "install", {}, FALSE, <<>>, "out")   \* L256, L25-30 self.running = True
  @@ "install"      :> St("install", "menu", {}, FALSE, <<>>, "out")   \* L31-32 SIGINT, SIGTERM -> self.signal_handler
  @@ "menu"         :> St("branch", "menu",
                          {"c1", "c2", "c3", "c4", "c5", "c6_1", "c7", "menu"},
                          FALSE, T, "out")                             \* L258-293 choice = input(...)
  @@ "c1"           :> St("call", "waves", {"menu"}, FALSE, T, "out")      \* L272
  @@ "c2"           :> St("call", "circles", {"menu"}, FALSE, T, "out")    \* L274
  @@ "c3"           :> St("call", "snake", {"menu"}, FALSE, T, "out")      \* L276
  @@ "c4"           :> St("call", "bars", {"menu"}, FALSE, T, "out")       \* L278
  @@ "c5"           :> St("call", "ball", {"menu"}, FALSE, T, "out")       \* L280
  @@ "c6_1"         :> St("call", "waves", {"c6_2"}, FALSE, T, "out")      \* L283
  @@ "c6_2"         :> St("call", "circles", {"c6_3"}, FALSE, T, "out")    \* L284
  @@ "c6_3"         :> St("call", "snake", {"c6_4"}, FALSE, T, "out")      \* L285
  @@ "c6_4"         :> St("call", "bars", {"c6_5"}, FALSE, T, "out")       \* L286
  @@ "c6_5"         :> St("call", "ball", {"menu"}, FALSE, T, "out")       \* L287
  @@ "c7"           :> St("cwrite", "c7_show", {}, FALSE, T, "out")        \* L289 clear_strip(): L64-65
  @@ "c7_show"      :> St("cshow", "finally", {}, FALSE, T, "out")         \* L66; L291 break
  \* interference_waves L79-106
  @@ "waves"        :> St("loop", "waves_draw", {"waves_ret"}, TRUE, T, "tick")   \* L89
  @@ "waves_draw"   :> St("writes", "waves_show", {}, FALSE, T, "tick")    \* L90-103
  @@ "waves_show"   :> St("show", "waves_sleep", {}, FALSE, T, "tick")     \* L105
  @@ "waves_sleep"  :> St("nop", "waves", {}, FALSE, T, "tick")            \* L106
  @@ "waves_ret"    :> St("ret", "menu", {}, FALSE, T, "out")
  \* expanding_circles L108-129
  @@ "circles"      :> St("loop", "circles_draw", {"circles_ret"}, TRUE, T, "tick")  \* L113
  @@ "circles_draw" :> St("writes", "circles_show", {}, FALSE, T, "tick")  \* L114-126
  @@ "circles_show" :> St("show", "circles_sleep", {}, FALSE, T, "tick")   \* L128
  @@ "circles_sleep" :> St("nop", "circles", {}, FALSE, T, "tick")         \* L129
  @@ "circles_ret"  :> St("ret", "menu", {}, FALSE, T, "out")
  \* snake_effect L131-174
  @@ "snake"        :> St("loop", "snake_clear", {"snake_ret"}, TRUE, T, "tick")  \* L145
  @@ "snake_clear"  :> St("cwrite", "snake_cshow", {}, FALSE, T, "tick")   \* L146-154 clear_strip(): L64-65
  @@ "snake_cshow"  :> St("cshow", "snake_draw", {}, FALSE, T, "tick")     \* L66 strip.show()
  @@ "snake_draw"   :> St("writes", "snake_show", {}, FALSE, T, "tick")    \* L156-171
  @@ "snake_show"   :> St("show", "snake_sleep", {}, FALSE, T, "tick")     \* L173
  @@ "snake_sleep"  :> St("nop", "snake", {}, FALSE, T, "tick")            \* L174
  @@ "snake_ret"    :> St("ret", "menu", {}, FALSE, T, "out")
  \* color_bars_test L176-191
  @@ "bars"         :> St("loop", "bars_draw", {"bars_ret"}, TRUE, T, "tick")     \* L179
  @@ "bars_draw"    :> St("writes", "bars_show", {}, FALSE, T, "tick")     \* L180-188
  @@ "bars_show"    :> St("show", "bars_sleep", {}, FALSE, T, "tick")      \* L190
  @@ "bars_sleep"   :> St("nop", "bars", {}, FALSE, T, "tick")             \* L191
  @@ "bars_ret"     :> St("ret", "menu", {}, FALSE, T, "out")
  \* bouncing_ball L193-253
  @@ "ball"         :> St("loop", "ball_clear", {"ball_ret"}, TRUE, T, "tick")    \* L205
  @@ "ball_clear"   :> St("cwrite", "ball_cshow", {}, FALSE, T, "tick")    \* L207-235 clear_strip(): L64-65
  @@ "ball_cshow"   :> St("cshow", "ball_draw", {}, FALSE, T, "tick")      \* L66 strip.show()
  @@ "ball_draw"    :> St("writes", "ball_show", {}, FALSE, T, "tick")     \* L236-250
  @@ "ball_show"    :> St("show", "ball_sleep", {}, FALSE, T, "tick")      \* L252
  @@ "ball_sleep"   :> St("nop", "ball", {}, FALSE, T, "tick")             \* L253
  @@ "ball_ret"     :> St("ret", "menu", {}, FALSE, T, "out")
  \* the clauses of main()'s try
  @@ "except_kbd"   :> St("nop", "finally", {}, FALSE, TF, "out")          \* L295-296
  @@ "except_exc"   :> St("nop", "finally", {}, FALSE, TF, "out")          \* L297-298
  @@ "finally"      :> St("cwrite", "finally_show", {}, FALSE, <<>>, "out")  \* L299-300 clear_strip(): L64-65
  @@ "finally_show" :> St("cshow", "finally_end", {}, FALSE, <<>>, "out")  \* L66
  @@ "finally_end"  :> St("endfinally", "end", {}, FALSE, <<>>, "out")     \* L301
  @@ "end"          :> St("exit", "end", {}, FALSE, <<>>, "out")           \* L304 main() returns

(***************************************************************************)
(* text.py: main() with its menu; every animation first builds its image   *)
(* (create_centered_text_image), then runs its loop.                       *)
(***************************************************************************)
text_main ==
  LET T == <<H(KBD, "except_kbd"), H(EXC, "except_exc"), F("finally")>>
      TF == <<F("finally")>>
      G == <<H(ALL, "font_default")>> \o T
  IN
     "start"        :> St("ctor", "install", {}, FALSE, <<>>, "out")   \* L181, L24-28 self.running = True
  @@ "install"      :> St("install", "menu", {}, FALSE, <<>>, "out")   \* L29-30 SIGINT, SIGTERM -> self.signal_handler
  @@ "menu"         :> St("branch", "menu", {"ask", "c4", "menu"}, FALSE, T, "out")  \* L183-191, L213-214
  @@ "ask"          :> St("nop", "font_try", {}, FALSE, T, "out")      \* L193-207 text, colour; L93, L115, L138
  @@ "font_try"     :> St("branch", "font_fits", {"font_fits", "font_default"},
                          FALSE, G, "out")                             \* L63-65 try: ImageFont.truetype(...)
  @@ "font_default" :> St("nop", "image", {}, FALSE, T, "out")         \* L66-68 except: load_default(); break
  @@ "font_fits"    :> St("branch", "image", {"font_try", "image"}, FALSE, T, "out")  \* L70-81 measure, smaller size
  @@ "image"        :> St("branch", "pulse", {"pulse", "rainbow", "sparkle"},
                          FALSE, T, "out")                             \* L83-89 draw.text; return img
  \* pulse_animation L91-111
  @@ "pulse"        :> St("loop", "pulse_draw", {"menu"}, TRUE, T, "tick")   \* L97
  @@ "pulse_draw"   :> St("writes", "pulse_show", {}, FALSE, T, "tick")  \* L99-108
  @@ "pulse_show"   :> St("show", "pulse_sleep", {}, FALSE, T, "tick")   \* L110
  @@ "pulse_sleep"  :> St("nop", "pulse", {}, FALSE, T, "tick")          \* L111
  \* rainbow_animation L113-134
  @@ "rainbow"      :> St("loop", "rainbow_draw", {"menu"}, TRUE, T, "tick")  \* L119
  @@ "rainbow_draw" :> St("writes", "rainbow_show", {}, FALSE, T, "tick")  \* L120-131
  @@ "rainbow_show" :> St("show", "rainbow_sleep", {}, FALSE, T, "tick")   \* L133
  @@ "rainbow_sleep" :> St("nop", "rainbow", {}, FALSE, T, "tick")         \* L134
  \* sparkle_animation L136-159
  @@ "sparkle"      :> St("loop", "sparkle_draw", {"menu"}, TRUE, T, "tick")  \* L142
  @@ "sparkle_draw" :> St("writes", "sparkle_show", {}, FALSE, T, "tick")  \* L144-156
  @@ "sparkle_show" :> St("show", "sparkle_sleep", {}, FALSE, T, "tick")   \* L158
  @@ "sparkle_sleep" :> St("nop", "sparkle", {}, FALSE, T, "tick")         \* L159
  @@ "c4"           :> St("cwrite", "c4_show", {}, FALSE, T, "out")    \* L209-210 clear_strip(): L49-50
  @@ "c4_show"      :> St("cshow", "finally", {}, FALSE, T, "out")     \* L51; L212 break
  @@ "except_kbd"   :> St("nop", "finally", {}, FALSE, TF, "out")      \* L216-217
  @@ "except_exc"   :> St("nop", "finally", {}, FALSE, TF, "out")      \* L218-219
  @@ "finally"      :> St("cwrite", "finally_show", {}, FALSE, <<>>, "out")  \* L220-221 clear_strip(): L49-50
  @@ "finally_show" :> St("cshow", "finally_end", {}, FALSE, <<>>, "out")    \* L51
  @@ "finally_end"  :> St("endfinally", "end", {}, FALSE, <<>>, "out") \* L222
  @@ "end"          :> St("exit", "end", {}, FALSE, <<>>, "out")

(***************************************************************************)
(* video.py: main() and play_video().  No signal handler is installed.     *)
(***************************************************************************)
video_main ==
  LET M == <<H(KBD, "main_kbd"), H(EXC, "main_exc")>>
      P == <<H(KBD, "pv_kbd"), F("pv_finally")>> \o M
      PF == <<F("pv_finally")>> \o M
  IN
     "start"        :> St("bind", "open", {}, FALSE, <<>>, "out")      \* L98-100 controller = VideoDisplayController()
  @@ "open"         :> St("branch", "read", {"read", "end"}, FALSE, M, "out")  \* L102-104, L70-77 not opened: return
  @@ "read"         :> St("loop", "frame", {"pv_finally"}, FALSE, P, "tick")   \* L79-83 cap.read(); not ret: break
  @@ "frame"        :> St("writes", "frame_show", {}, FALSE, P, "tick")  \* L85-88, L61-66
  @@ "frame_show"   :> St("show", "frame_sleep", {}, FALSE, P, "tick")   \* L67
  @@ "frame_sleep"  :> St("nop", "read", {}, FALSE, P, "tick")           \* L89
  @@ "pv_kbd"       :> St("nop", "pv_finally", {}, FALSE, PF, "out")     \* L91-92
  @@ "pv_finally"   :> St("cwrite", "pv_finally_show", {}, FALSE, M, "out")  \* L93-95 clear_display(): L56-57
  @@ "pv_finally_show" :> St("cshow", "pv_finally_end", {}, FALSE, M, "out") \* L58
  @@ "pv_finally_end" :> St("endfinally", "end", {}, FALSE, M, "out")    \* L95 play_video returns
  @@ "main_kbd"     :> St("cwrite", "main_kbd_show", {}, FALSE, <<>>, "out")  \* L105-107 clear_display(): L56-57
  @@ "main_kbd_show" :> St("cshow", "end", {}, FALSE, <<>>, "out")       \* L58
  @@ "main_exc"     :> St("cwrite", "main_exc_show", {}, FALSE, <<>>, "out")  \* L108-110 clear_display(): L56-57
  @@ "main_exc_show" :> St("cshow", "end", {}, FALSE, <<>>, "out")       \* L58
  @@ "end"          :> St("exit", "end", {}, FALSE, <<>>, "out")         \* L112 main() returns

(***************************************************************************)
(* text02.py: the handler is installed at import, controller is bound in   *)
(* main(); display_text_sequence() scrolls each word once and returns.     *)
(* The text is drawn 64 rows down a 96-row image and the window moves up   *)
(* from row 64 to row 0, so the last frame of a scroll is black.           *)
(***************************************************************************)
text02_main ==
  LET D == <<H(KBD, "seq_kbd"), H(EXC, "seq_exc")>>
      G == <<H(ALL, "font_default")>> \o D
      S == <<H(KBD, "scroll_kbd")>> \o D
  IN
     "start"        :> St("install", "bind", {}, FALSE, <<>>, "out")   \* L25 signal.signal(SIGINT, signal_handler)
  @@ "bind"         :> St("bind", "words", {}, FALSE, <<>>, "out")     \* L145-146 controller = TextDisplayController()
  @@ "words"        :> St("loop", "word_clear", {"end"}, FALSE, D, "loop")  \* L122-131 for word in words
  @@ "word_clear"   :> St("cwrite", "word_cshow", {}, FALSE, D, "loop")  \* L132 clear_display(): L66-67
  @@ "word_cshow"   :> St("cshow", "word_sleep", {}, FALSE, D, "loop")   \* L68
  @@ "word_sleep"   :> St("nop", "font_try", {}, FALSE, D, "loop")       \* L133, L88-90
  @@ "font_try"     :> St("branch", "font_done", {"font_done", "font_default"},
                          FALSE, G, "loop")                              \* L92-93 try: ImageFont.truetype(...)
  @@ "font_default" :> St("nop", "font_done", {}, FALSE, D, "loop")      \* L94-95 except: load_default()
  @@ "font_done"    :> St("nop", "scroll", {}, FALSE, D, "loop")         \* L97-103 draw.text
  @@ "scroll"       :> St("loop", "frame", {"last"}, FALSE, S, "tick")   \* L105-106 for offset in range(64, -1, -1)
  @@ "frame"        :> St("writes", "frame_show", {}, FALSE, S, "tick")  \* L107, L71-83
  @@ "frame_show"   :> St("show", "frame_sleep", {}, FALSE, S, "tick")   \* L84
  @@ "frame_sleep"  :> St("nop", "scroll", {}, FALSE, S, "tick")         \* L108
  @@ "last"         :> St("bwrites", "last_show", {}, FALSE, S, "tick")  \* L107, L71-83 at offset 0
  @@ "last_show"    :> St("show", "last_sleep", {}, FALSE, S, "tick")    \* L84
  @@ "last_sleep"   :> St("nop", "pause", {}, FALSE, S, "tick")          \* L108
  @@ "scroll_kbd"   :> St("cwrite", "scroll_kbd_show", {}, FALSE, D, "loop")  \* L109-110 clear_display(): L66-67
  @@ "scroll_kbd_show" :> St("cshow", "pause", {}, FALSE, D, "loop")     \* L68
  @@ "pause"        :> St("nop", "words", {}, FALSE, D, "loop")          \* L135
  @@ "seq_kbd"      :> St("cwrite", "seq_kbd_show", {}, FALSE, <<>>, "out")  \* L137-139 clear_display(): L66-67
  @@ "seq_kbd_show" :> St("cshow", "end", {}, FALSE, <<>>, "out")        \* L68
  @@ "seq_exc"      :> St("cwrite", "seq_exc_show", {}, FALSE, <<>>, "out")  \* L140-142 clear_display(): L66-67
  @@ "seq_exc_show" :> St("cshow", "end", {}, FALSE, <<>>, "out")        \* L68
  @@ "end"          :> St("exit", "end", {}, FALSE, <<>>, "out")         \* L157-165 main() returns

(***************************************************************************)
(* textfire.py: the handler is installed at import, controller is bound in *)
(* main(); display_text_sequence() scrolls the words for ever.  Each       *)
(* scroll_text() calls get_font() several times (find_optimal_font_size,   *)
(* scroll_text, calculate_text_size) before its frame loop.                *)
(***************************************************************************)
textfire_main ==
  LET D == <<H(KBD, "seq_kbd"), H(EXC, "seq_exc")>>
      G == <<H(ALL, "font_continue")>> \o D
      S == <<H(KBD, "scroll_kbd")>> \o D
  IN
     "start"        :> St("install", "bind", {}, FALSE, <<>>, "out")   \* L26 signal.signal(SIGINT, signal_handler)
  @@ "bind"         :> St("bind", "words", {}, FALSE, <<>>, "out")     \* L230-231 controller = FireTextDisplayController()
  @@ "words"        :> St("loop", "word_clear", {}, FALSE, D, "loop")  \* L213-218 while True: for word in words
  @@ "word_clear"   :> St("cwrite", "word_cshow", {}, FALSE, D, "loop")  \* L219 clear_display(): L101-102
  @@ "word_cshow"   :> St("cshow", "font_try", {}, FALSE, D, "loop")     \* L103; L220, L187-191
  @@ "font_try"     :> St("branch", "font_done", {"font_done", "font_continue"},
                          FALSE, G, "loop")                              \* L107-109 try: return ImageFont.truetype(...)
  @@ "font_continue" :> St("branch", "font_try", {"font_try", "font_default"},
                          FALSE, D, "loop")                              \* L110-111 except: continue
  @@ "font_default" :> St("nop", "font_done", {}, FALSE, D, "loop")      \* L113-114 load_default()
  @@ "font_done"    :> St("branch", "scroll", {"font_try", "scroll"},
                          FALSE, D, "loop")                              \* L143-150, L192-200 next get_font() or the loop
  @@ "scroll"       :> St("loop", "frame", {"words"}, FALSE, S, "tick")  \* L202-203 for offset in range(...)
  @@ "frame"        :> St("writes", "frame_show", {}, FALSE, S, "tick")  \* L204, L156-168
  @@ "frame_show"   :> St("show", "frame_sleep", {}, FALSE, S, "tick")   \* L169
  @@ "frame_sleep"  :> St("nop", "scroll", {}, FALSE, S, "tick")         \* L205-206
  @@ "scroll_kbd"   :> St("cwrite", "scroll_kbd_show", {}, FALSE, D, "loop")  \* L208-209 clear_display(): L101-102
  @@ "scroll_kbd_show" :> St("cshow", "words", {}, FALSE, D, "loop")     \* L103
  @@ "seq_kbd"      :> St("cwrite", "seq_kbd_show", {}, FALSE, <<>>, "out")  \* L222-224 clear_display(): L101-102
  @@ "seq_kbd_show" :> St("cshow", "end", {}, FALSE, <<>>, "out")        \* L103
  @@ "seq_exc"      :> St("cwrite", "seq_exc_show", {}, FALSE, <<>>, "out")  \* L225-227 clear_display(): L101-102
  @@ "seq_exc_show" :> St("cshow", "end", {}, FALSE, <<>>, "out")        \* L103
  @@ "end"          :> St("exit", "end", {}, FALSE, <<>>, "out")         \* L242-245 main() returns

(***************************************************************************)
(* text0.py: no signal handler; main() clears, then                        *)
(* display_sequence_animated() shows the words for ever: a word scrolls    *)
(* (scroll_text_animated) or stands still (display_static_text), then the  *)
(* star animation runs.                                                    *)
(***************************************************************************)
text0_main ==
  LET M == <<H(KBD, "main_kbd"), H(EXC, "main_exc")>>
      D == <<H(KBD, "seq_kbd"), H(EXC, "seq_exc")>> \o M
      GS == <<H(ALL, "scroll_font_fail")>> \o D
      GT == <<H(ALL, "static_font_fail")>> \o D
      S == <<H(EXC, "scroll_exc")>> \o D
  IN
     "start"        :> St("bind", "main_clear", {}, FALSE, <<>>, "out")  \* L272-284 controller = TextDisplayController()
  @@ "main_clear"   :> St("cwrite", "main_cshow", {}, FALSE, M, "out")   \* L286-288 clear_display(): L120-121
  @@ "main_cshow"   :> St("cshow", "words", {}, FALSE, M, "out")         \* L122; L290-293
  @@ "words"        :> St("loop", "word_clear", {}, FALSE, D, "loop")    \* L250-252 while True: for word in words
  @@ "word_clear"   :> St("cwrite", "word_cshow", {}, FALSE, D, "loop")  \* L253 clear_display(): L120-121
  @@ "word_cshow"   :> St("cshow", "word_sleep", {}, FALSE, D, "loop")   \* L122
  @@ "word_sleep"   :> St("branch", "scroll_font", {"scroll_font", "static_font"},
                          FALSE, D, "loop")                              \* L254-259 len(word) > 4
  \* scroll_text_animated L198-211, create_text_image L177-196
  @@ "scroll_font"  :> St("branch", "scroll", {"scroll", "scroll_font_fail"},
                          FALSE, GS, "loop")                             \* L183-185 try: ImageFont.truetype(...); break
  @@ "scroll_font_fail" :> St("nop", "scroll", {}, FALSE, D, "loop")     \* L186-187 except: continue; L189-196
  @@ "scroll"       :> St("loop", "scroll_frame", {"stars"}, FALSE, S, "tick")  \* L203-205 for offset in range(...)
  @@ "scroll_frame" :> St("writes", "scroll_show", {}, FALSE, S, "tick") \* L206, L160-173
  @@ "scroll_show"  :> St("show", "scroll_sleep", {}, FALSE, S, "tick")  \* L175
  @@ "scroll_sleep" :> St("nop", "scroll", {}, FALSE, S, "tick")         \* L207-208
  @@ "scroll_exc"   :> St("cwrite", "scroll_exc_show", {}, FALSE, D, "loop")  \* L209-211 clear_display(): L120-121
  @@ "scroll_exc_show" :> St("cshow", "stars", {}, FALSE, D, "loop")     \* L122
  \* display_static_text L221-247
  @@ "static_font"  :> St("branch", "static", {"static", "static_font_fail"},
                          FALSE, GT, "loop")                             \* L227-229 try: ImageFont.truetype(...); break
  @@ "static_font_fail" :> St("nop", "static", {}, FALSE, D, "loop")     \* L230-231 except: continue; L233-242
  @@ "static"       :> St("loop", "static_frame", {"stars"}, FALSE, D, "tick")  \* L244 for _ in range(20)
  @@ "static_frame" :> St("writes", "static_show", {}, FALSE, D, "tick") \* L245, L160-173
  @@ "static_show"  :> St("show", "static_sleep", {}, FALSE, D, "tick")  \* L175
  @@ "static_sleep" :> St("nop", "static", {}, FALSE, D, "tick")         \* L246-247
  \* display_star_animation L213-219
  @@ "stars"        :> St("loop", "stars_frame", {"pause"}, FALSE, D, "tick")   \* L261, L214-215
  @@ "stars_frame"  :> St("writes", "stars_show", {}, FALSE, D, "tick")  \* L216-218, L160-173
  @@ "stars_show"   :> St("show", "stars_sleep", {}, FALSE, D, "tick")   \* L175
  @@ "stars_sleep"  :> St("nop", "stars", {}, FALSE, D, "tick")          \* L219
  @@ "pause"        :> St("nop", "words", {}, FALSE, D, "loop")          \* L262
  @@ "seq_kbd"      :> St("cwrite", "seq_kbd_show", {}, FALSE, M, "out") \* L264-266 clear_display(): L120-121
  @@ "seq_kbd_show" :> St("cshow", "end", {}, FALSE, M, "out")           \* L122
  @@ "seq_exc"      :> St("cwrite", "seq_exc_show", {}, FALSE, M, "out") \* L267-269 clear_display(): L120-121
  @@ "seq_exc_show" :> St("cshow", "end", {}, FALSE, M, "out")           \* L122
  @@ "main_kbd"     :> St("cwrite", "main_kbd_show", {}, FALSE, <<>>, "out")  \* L295-297 clear_display(): L120-121
  @@ "main_kbd_show" :> St("cshow", "end", {}, FALSE, <<>>, "out")       \* L122
  @@ "main_exc"     :> St("cwrite", "main_exc_show", {}, FALSE, <<>>, "out")  \* L298-300 clear_display(): L120-121
  @@ "main_exc_show" :> St("cshow", "end", {}, FALSE, <<>>, "out")       \* L122
  @@ "end"          :> St("exit", "end", {}, FALSE, <<>>, "out")         \* L303 main() returns

(***************************************************************************)
(* text03.py: the handler is installed at import, controller is bound in   *)
(* main() once the constructor, which downloads a font, has returned;      *)
(* scroll_text() scrolls the words for ever.                               *)
(***************************************************************************)
text03_main ==
  LET S == <<H(KBD, "scroll_kbd"), H(EXC, "scroll_exc")>>
      DL == <<H(EXC, "download_fail")>>
      GF == <<H(EXC, "font_fail")>> \o S
  IN
     "start"        :> St("install", "download", {}, FALSE, <<>>, "out")  \* L35 signal.signal(SIGINT, signal_handler)
  @@ "download"     :> St("branch", "bind", {"bind", "download_fail"},
                          FALSE, DL, "out")                              \* L81-86 try: urlretrieve(...)
  @@ "download_fail" :> St("nop", "bind", {}, FALSE, <<>>, "out")        \* L87-89 except Exception: return None
  @@ "bind"         :> St("bind", "font", {}, FALSE, <<>>, "out")        \* L241-242 controller = LEDDisplayController(...)
  @@ "font"         :> St("branch", "scroll", {"scroll", "font_fail"},
                          FALSE, GF, "out")                              \* L212, L140-143 try: ImageFont.truetype(...)
  @@ "font_fail"    :> St("nop", "scroll", {}, FALSE, S, "out")          \* L144-146 except Exception; load_default()
  @@ "scroll"       :> St("loop", "frame", {}, FALSE, S, "tick")         \* L215-217 while True: for offset in range(...)
  @@ "frame"        :> St("writes", "frame_show", {}, FALSE, S, "tick")  \* L218, L195-207
  @@ "frame_show"   :> St("show", "frame_sleep", {}, FALSE, S, "tick")   \* L208
  @@ "frame_sleep"  :> St("nop", "scroll", {}, FALSE, S, "tick")         \* L219-220
  @@ "scroll_kbd"   :> St("cwrite", "scroll_kbd_show", {}, FALSE, <<>>, "out")  \* L222-223 clear_display(): L135-136
  @@ "scroll_kbd_show" :> St("cshow", "end", {}, FALSE, <<>>, "out")     \* L137
  @@ "scroll_exc"   :> St("cwrite", "scroll_exc_show", {}, FALSE, <<>>, "out")  \* L224-226 clear_display(): L135-136
  @@ "scroll_exc_show" :> St("cshow", "end", {}, FALSE, <<>>, "out")     \* L137
  @@ "end"          :> St("exit", "end", {}, FALSE, <<>>, "out")         \* L253-256 main() returns

Scripts == {"stars", "main", "text", "video", "text02", "textfire", "text0", "text03"}

Prog(s) ==
  CASE s = "stars" -> stars_main
    [] s = "main" -> main_main
    [] s = "text" -> text_main
    [] s = "video" -> video_main
    [] s = "text02" -> text02_main
    [] s = "textfire" -> textfire_main
    [] s = "text0" -> text0_main
    [] s = "text03" -> text03_main

\* the statement the main thread is at
Cur == Prog(script)[pc]

\* main.py and text.py install a bound method, which needs no global name;
\* the other scripts install a module-level function that reads the global
\* name controller
MethodHandler(s) == s \in {"main", "text"}

\* the signals the script installs its handler for
HandledSignals(s) == IF MethodHandler(s) THEN {"SIGINT", "SIGTERM"} ELSE {"SIGINT"}

Alive == pc \notin {"idle", "exited"}

\* the main thread can take a step
Live == Alive /\ hpc = "none"

Log(c) == IF Cur.zone = "tick" THEN Append(tickLog, c) ELSE tickLog

Bump(n) == IF signals > 0 /\ n < ClearCap THEN n + 1 ELSE n

\* exception e is raised at the current statement
Raise(e) ==
  LET h == Find(Cur.ctx, e) IN
  /\ pc' = h.to
  /\ pending' = (IF h.fin THEN e ELSE "none")
  /\ endKind' = (IF h.to = "exited" THEN e ELSE endKind)
  /\ stack' = <<>>
  /\ wmid' = FALSE

InitRun ==
  /\ script \in Scripts
  /\ pc = "start" /\ stack = <<>> /\ wmid = FALSE
  /\ pending = "none" /\ hpc = "none" /\ installed = FALSE /\ bound = FALSE
  /\ running = FALSE /\ buf = "black" /\ lastFlush = "none" /\ shown = "none"
  /\ tickLog = <<>> /\ signals = 0 /\ faults = 0 /\ sigInLoop = FALSE
  /\ handled = FALSE /\ resumed = FALSE /\ afterFault = FALSE
  /\ clearsAfterSignal = 0
  /\ endKind = "running"
  /\ ResolverIdle
  /\ PassIdle
  /\ PopIdle
  /\ ColourIdle
  /\ DrawIdle
  /\ ClearIdle
  /\ TopologyIdle
  /\ TextIdle
  /\ BallIdle
  /\ ScrollIdle

\* input(), print(), time.sleep(), image set-up: no effect on the device
StepNop ==
  /\ Live /\ Cur.op = "nop"
  /\ pc' = Cur.next
  /\ UNCHANGED <<script, stack, wmid, pending, hpc, installed, bound, running, buf,
                 lastFlush, shown, tickLog, signals, faults, sigInLoop, handled,
                 resumed, afterFault, clearsAfterSignal, endKind, notRun>>

\* controller = Controller() at module level
StepBind ==
  /\ Live /\ Cur.op = "bind"
  /\ bound' = TRUE
  /\ pc' = Cur.next
  /\ UNCHANGED <<script, stack, wmid, pending, hpc, installed, running, buf,
                 lastFlush, shown, tickLog, signals, faults, sigInLoop, handled,
                 resumed, afterFault, clearsAfterSignal, endKind, notRun>>

\* the constructor of main.py and text.py up to self.running = True
StepCtor ==
  /\ Live /\ Cur.op = "ctor"
  /\ running' = TRUE
  /\ pc' = Cur.next
  /\ UNCHANGED <<script, stack, wmid, pending, hpc, installed, bound, buf,
                 lastFlush, shown, tickLog, signals, faults, sigInLoop, handled,
                 resumed, afterFault, clearsAfterSignal, endKind, notRun>>

\* signal.signal(...)
StepInstall ==
  /\ Live /\ Cur.op = "install"
  /\ installed' = TRUE
  /\ pc' = Cur.next
  /\ UNCHANGED <<script, stack, wmid, pending, hpc, bound, running, buf,
                 lastFlush, shown, tickLog, signals, faults, sigInLoop, handled,
                 resumed, afterFault, clearsAfterSignal, endKind, notRun>>

\* if / elif on an input, a file or a font the model does not follow
StepBranch ==
  /\ Live /\ Cur.op = "branch"
  /\ pc' \in Cur.outs
  /\ UNCHANGED <<script, stack, wmid, pending, hpc, installed, bound, running, buf,
                 lastFlush, shown, tickLog, signals, faults, sigInLoop, handled,
                 resumed, afterFault, clearsAfterSignal, endKind, notRun>>

\* the head of a loop: a new tick starts, or the loop ends (its time is up,
\* its range is exhausted, or self.running is False)
StepLoop ==
  /\ Live /\ Cur.op = "loop"
  /\ pc' \in (IF Cur.run /\ ~running THEN Cur.outs ELSE {Cur.next} \cup Cur.outs)
  /\ tickLog' = <<>>
  /\ UNCHANGED <<script, stack, wmid, pending, hpc, installed, bound, running, buf,
                 lastFlush, shown, signals, faults, sigInLoop, handled,
                 resumed, afterFault, clearsAfterSignal, endKind, notRun>>

\* the pixel loop of a frame starts: strip.setPixelColor(...) of some pixels
WriteBegin ==
  /\ Live /\ Cur.op \in {"writes", "bwrites"} /\ ~wmid
  /\ wmid' = TRUE
  /\ buf' = (IF Cur.op = "bwrites" /\ buf = "black" THEN "black" ELSE "mixed")
  /\ tickLog' = Log("w")
  /\ resumed' = (resumed \/ handled)
  /\ afterFault' = (afterFault \/ faults > 0)
  /\ UNCHANGED <<script, pc, stack, pending, hpc, installed, bound, running,
                 lastFlush, shown, signals, faults, sigInLoop, handled,
                 clearsAfterSignal, endKind, notRun>>

\* the pixel loop of a frame ends
WriteEnd ==
  /\ Live /\ Cur.op \in {"writes", "bwrites"} /\ wmid
  /\ wmid' = FALSE
  /\ buf' = (IF Cur.op = "bwrites" THEN "black" ELSE "frame")
  /\ pc' = Cur.next
  /\ UNCHANGED <<script, stack, pending, hpc, installed, bound, running,
                 lastFlush, shown, tickLog, signals, faults, sigInLoop, handled,
                 resumed, afterFault, clearsAfterSignal, endKind, notRun>>

\* strip.show() of the render code
Show ==
  /\ Live /\ Cur.op = "show"
  /\ lastFlush' = "frame"
  /\ shown' = buf
  /\ tickLog' = Log("s")
  /\ resumed' = (resumed \/ handled)
  /\ afterFault' = (afterFault \/ faults > 0)
  /\ pc' = Cur.next
  /\ UNCHANGED <<script, stack, wmid, pending, hpc, installed, bound, running, buf,
                 signals, faults, sigInLoop, handled, clearsAfterSignal, endKind,
                 notRun>>

\* strip.show() fails in the render code: rpi_ws281x raises RuntimeError
DeviceFail ==
  /\ Live /\ Cur.op = "show"
  /\ faults < MaxFaults
  /\ faults' = faults + 1
  /\ Raise("Exception")
  /\ UNCHANGED <<script, hpc, installed, bound, running, buf, lastFlush, shown,
                 tickLog, signals, sigInLoop, handled, resumed, afterFault, clearsAfterSignal,
                 notRun>>

\* the pixel loop of clear_strip() / clear_display() starts
ClearBegin ==
  /\ Live /\ Cur.op = "cwrite" /\ ~wmid
  /\ wmid' = TRUE
  /\ buf' = (IF buf = "black" THEN "black" ELSE "mixed")
  /\ tickLog' = Log("w")
  /\ UNCHANGED <<script, pc, stack, pending, hpc, installed, bound, running,
                 lastFlush, shown, signals, faults, sigInLoop, handled, resumed, afterFault,
                 clearsAfterSignal, endKind, notRun>>

\* the pixel loop of clear_strip() / clear_display() ends: every pixel black
ClearEnd ==
  /\ Live /\ Cur.op = "cwrite" /\ wmid
  /\ wmid' = FALSE
  /\ buf' = "black"
  /\ pc' = Cur.next
  /\ UNCHANGED <<script, stack, pending, hpc, installed, bound, running,
                 lastFlush, shown, tickLog, signals, faults, sigInLoop, handled,
                 resumed, afterFault, clearsAfterSignal, endKind, notRun>>

\* strip.show() of clear_strip() / clear_display()
ClearShow ==
  /\ Live /\ Cur.op = "cshow"
  /\ lastFlush' = "clear"
  /\ shown' = buf
  /\ clearsAfterSignal' = Bump(clearsAfterSignal)
  /\ tickLog' = Log("s")
  /\ pc' = Cur.next
  /\ UNCHANGED <<script, stack, wmid, pending, hpc, installed, bound, running, buf,
                 signals, faults, sigInLoop, handled, resumed, afterFault, endKind,
                 notRun>>

\* controller.<animation>() called from the menu of main.py
StepCall ==
  /\ Live /\ Cur.op = "call"
  /\ stack' = <<CHOOSE r \in Cur.outs : TRUE>> \o stack
  /\ pc' = Cur.next
  /\ UNCHANGED <<script, wmid, pending, hpc, installed, bound, running, buf,
                 lastFlush, shown, tickLog, signals, faults, sigInLoop, handled,
                 resumed, afterFault, clearsAfterSignal, endKind, notRun>>

\* the animation returns to its caller
StepRet ==
  /\ Live /\ Cur.op = "ret"
  /\ pc' = Head(stack)
  /\ stack' = Tail(stack)
  /\ UNCHANGED <<script, wmid, pending, hpc, installed, bound, running, buf,
                 lastFlush, shown, tickLog, signals, faults, sigInLoop, handled,
                 resumed, afterFault, clearsAfterSignal, endKind, notRun>>

\* the end of a finally block: the pending exception, if any, goes on
EndFinally ==
  /\ Live /\ Cur.op = "endfinally"
  /\ IF pending = "none"
     THEN pc' = Cur.next /\ UNCHANGED <<pending, endKind, stack, wmid>>
     ELSE Raise(pending)
  /\ UNCHANGED <<script, hpc, installed, bound, running, buf, lastFlush, shown,
                 tickLog, signals, faults, sigInLoop, handled, resumed, afterFault,
                 clearsAfterSignal, notRun>>

\* main() returns and the interpreter ends
Exit ==
  /\ Live /\ Cur.op = "exit"
  /\ pc' = "exited"
  /\ endKind' = "return"
  /\ UNCHANGED <<script, stack, wmid, pending, hpc, installed, bound, running, buf,
                 lastFlush, shown, tickLog, signals, faults, sigInLoop, handled,
                 resumed, afterFault, clearsAfterSignal, notRun>>

\* a signal arrives and the script's Python handler starts
SignalHandled ==
  /\ Live /\ signals < MaxSignals
  /\ installed
  /\ \E sig \in HandledSignals(script) :
       hpc' = (IF MethodHandler(script) THEN "h_run" ELSE "h_clear")
  /\ signals' = signals + 1
  /\ sigInLoop' = (sigInLoop \/ Cur.zone # "out")
  /\ UNCHANGED <<script, pc, stack, wmid, pending, installed, bound, running, buf,
                 lastFlush, shown, tickLog, faults, handled, resumed, afterFault,
                 clearsAfterSignal, endKind, notRun>>

\* SIGINT arrives with Python's default handler: KeyboardInterrupt is raised
\* at the current statement
SignalDefaultInt ==
  /\ Live /\ signals < MaxSignals
  /\ ~installed
  /\ signals' = signals + 1
  /\ sigInLoop' = (sigInLoop \/ Cur.zone # "out")
  /\ handled' = TRUE
  /\ Raise("KeyboardInterrupt")
  /\ UNCHANGED <<script, hpc, installed, bound, running, buf, lastFlush, shown,
                 tickLog, faults, resumed, afterFault, clearsAfterSignal, notRun>>

\* SIGTERM arrives with no handler installed for it: the process is killed
SignalDefaultTerm ==
  /\ Live /\ signals < MaxSignals
  /\ ~(installed /\ "SIGTERM" \in HandledSignals(script))
  /\ signals' = signals + 1
  /\ sigInLoop' = (sigInLoop \/ Cur.zone # "out")
  /\ handled' = TRUE
  /\ pc' = "exited"
  /\ endKind' = "killed"
  /\ UNCHANGED <<script, stack, wmid, pending, hpc, installed, bound, running, buf,
                 lastFlush, shown, tickLog, faults, resumed, afterFault, clearsAfterSignal,
                 notRun>>

\* signal_handler of main.py and text.py: self.running = False
HandlerRun ==
  /\ Alive /\ hpc = "h_run"
  /\ running' = FALSE
  /\ hpc' = "h_clear"
  /\ UNCHANGED <<script, pc, stack, wmid, pending, installed, bound, buf,
                 lastFlush, shown, tickLog, signals, faults, sigInLoop, handled,
                 resumed, afterFault, clearsAfterSignal, endKind, notRun>>

\* the module-level handler reads the global name controller before main()
\* has bound it: NameError leaves the handler
HandlerNameError ==
  /\ Alive /\ hpc = "h_clear"
  /\ ~MethodHandler(script) /\ ~bound
  /\ hpc' = "none"
  /\ handled' = TRUE
  /\ Raise("Exception")
  /\ UNCHANGED <<script, installed, bound, running, buf, lastFlush, shown,
                 tickLog, signals, faults, sigInLoop, resumed, afterFault, clearsAfterSignal,
                 notRun>>

\* a handler that goes to its show() with the buffer as it found it
HandlerClear_skipped ==
  /\ Alive /\ hpc = "h_clear"
  /\ MethodHandler(script) \/ bound
  /\ hpc' = "h_show"
  /\ UNCHANGED <<script, pc, stack, wmid, pending, installed, bound, running, buf,
                 lastFlush, shown, tickLog, signals, faults, sigInLoop, handled,
                 resumed, afterFault, clearsAfterSignal, endKind, notRun>>

\* the handler's clear: every pixel black
HandlerClear ==
  /\ Alive /\ hpc = "h_clear"
  /\ MethodHandler(script) \/ bound
  /\ buf' = "black"
  /\ hpc' = "h_show"
  /\ UNCHANGED <<script, pc, stack, wmid, pending, installed, bound, running,
                 lastFlush, shown, tickLog, signals, faults, sigInLoop, handled,
                 resumed, afterFault, clearsAfterSignal, endKind, notRun>>

\* the handler's clear: strip.show()
HandlerShow ==
  /\ Alive /\ hpc = "h_show"
  /\ lastFlush' = "clear"
  /\ shown' = buf
  /\ clearsAfterSignal' = Bump(clearsAfterSignal)
  /\ hpc' = "h_exit"
  /\ UNCHANGED <<script, pc, stack, wmid, pending, installed, bound, running, buf,
                 tickLog, signals, faults, sigInLoop, handled, resumed, afterFault, endKind,
                 notRun>>

\* the handler's sys.exit(0): SystemExit is raised at the interrupted
\* statement of the main thread
HandlerExit ==
  /\ Alive /\ hpc = "h_exit"
  /\ hpc' = "none"
  /\ handled' = TRUE
  /\ Raise("SystemExit")
  /\ UNCHANGED <<script, installed, bound, running, buf, lastFlush, shown,
                 tickLog, signals, faults, sigInLoop, resumed, afterFault, clearsAfterSignal,
                 notRun>>

NextRun ==
  \/ StepNop \/ StepBind \/ StepCtor \/ StepInstall \/ StepBranch \/ StepLoop
  \/ WriteBegin \/ WriteEnd \/ Show \/ DeviceFail
  \/ ClearBegin \/ ClearEnd \/ ClearShow
  \/ StepCall \/ StepRet \/ EndFinally \/ Exit
  \/ SignalHandled \/ SignalDefaultInt \/ SignalDefaultTerm
  \/ HandlerRun \/ HandlerNameError \/ HandlerClear \/ HandlerShow \/ HandlerExit

SpecRun == InitRun /\ [][NextRun]_vars

(***************************************************************************)
(* SpecPop: the population of one kind of scene object over the ticks of   *)
(* its script's main loop.  Times are in tenths of a second, lengths in    *)
(* pixels.  An object is [v, speed]: v is life for shooting stars, comets  *)
(* and planets, y for bubbles and flowers; speed is what one update adds   *)
(* to life or takes from y (a flower never moves).  random.random() and    *)
(* random.randint() are choices from small sets inside their ranges.       *)
(***************************************************************************)
Kinds == {"shooting_star", "comet", "planet", "bubble", "flower"}

Cap(k) ==
  CASE k = "shooting_star" -> max_shooting_stars
    [] k = "comet" -> max_comets
    [] k = "planet" -> max_planets
    [] k = "bubble" -> max_bubbles
    [] k = "flower" -> max_flowers

Interval(k) ==
  CASE k = "shooting_star" -> shooting_star_interval
    [] k = "comet" -> comet_interval
    [] k = "planet" -> planet_interval
    [] k = "bubble" -> bubble_interval
    [] k = "flower" -> flower_interval

\* Star.max_life = DISPLAY_WIDTH * 1.5
shooting_max_life == (GRID_DISPLAY_WIDTH * 3) \div 2
\* Planet.max_life = display_width * 3
planet_max_life == GRID_DISPLAY_WIDTH * 3

\* speed = 3 + random.random() * 4
ShootingSpeeds == {3, 6}
CometSpeeds == {3, 6}
\* speed = 0.5 + random.random() * 2
PlanetSpeeds == {1, 2}
\* speed = 1 + random.random() * 2
BubbleSpeeds == {1, 2}
\* y = random.randint(0, DISPLAY_HEIGHT - 1): the row the removal filter
\* drops and a row it keeps
FlowerRows == {0, GRID_DISPLAY_HEIGHT - 1}

\* time.time(): seconds since 1970, far above every interval
time_time_fast(now) == (planet_interval + 1) * (1 + now)
time_time(now) == planet_interval + 1 + now

\* the loop period of a run: fast (0.1 s, well inside the spawn interval) or
\* slow (every tick just over the interval)
Periods(k) == {1, Interval(k) + 1}

Fastest(S) == CHOOSE x \in S : \A y \in S : y <= x

\* updates the fastest object of a kind lives through
Lifetime(k) ==
  CASE k = "shooting_star" -> shooting_max_life \div Fastest(ShootingSpeeds)
    [] k = "comet" -> comet_max_life \div Fastest(CometSpeeds)
    [] k = "planet" -> planet_max_life \div Fastest(PlanetSpeeds)
    [] k = "bubble" -> GRID_DISPLAY_HEIGHT \div Fastest(BubbleSpeeds)
    [] k = "flower" -> 0

\* a fast run is followed until its first object can have been removed, a
\* slow run until the population can have passed its maximum
MaxTicks(k, d) ==
  IF d = 1 THEN Interval(k) + Lifetime(k) + 2 + ExtraTicks
  ELSE Cap(k) + ExtraTicks

\* a new object; born stands for the object's identity and is 0 until the
\* tick that appended it gives it its time of spawn
Obj(v, speed) == [v |-> v, speed |-> speed, born |-> 0]

Named(l, now) ==
  IF l # <<>> /\ l[Len(l)].born = 0 THEN [l EXCEPT ![Len(l)].born = now] ELSE l

Born(l) == {l[i].born : i \in 1..Len(l)}

\* Star.update, Comet.update, Planet.update: self.life += self.speed
UpdateLife(l) == [i \in 1..Len(l) |-> [l[i] EXCEPT !.v = @ + l[i].speed]]

\* Bubble.update: self.y -= self.speed
UpdateY(l) == [i \in 1..Len(l) |-> [l[i] EXCEPT !.v = @ - l[i].speed]]

add_shooting_star(l, speed) ==
  IF Len(l) < max_shooting_stars THEN Append(l, Obj(0, speed)) ELSE l

add_comet(l, speed) ==
  IF Len(l) < max_comets THEN Append(l, Obj(0, speed)) ELSE l

add_planet(l, speed, coin) ==
  IF Len(l) < max_planets /\ coin THEN Append(l, Obj(0, speed)) ELSE l

add_bubble_without_cap(l, speed) ==
  Append(l, Obj(GRID_DISPLAY_HEIGHT, speed))

add_bubble(l, speed) ==
  IF Len(l) < max_bubbles THEN Append(l, Obj(GRID_DISPLAY_HEIGHT, speed)) ELSE l

add_flower(l, y) ==
  IF Len(l) < max_flowers THEN Append(l, Obj(y, 0)) ELSE l

shooting_alive(s) == s.v < shooting_max_life
comet_alive(c) == c.v < comet_max_life
planet_alive(p) == ~(p.v > planet_max_life)
above_bottom_inclusive(o) == o.v >= 0
above_bottom(o) == o.v > 0

\* what the tick's attempt did to a list of length n
Outcome(n, n2) == IF n2 > n THEN "added" ELSE "full"

InitPop ==
  /\ kind \in Kinds
  /\ objs = <<>>
  /\ t = 0
  /\ last_spawn = 0
  /\ dt \in Periods(kind)
  /\ ticks = 0
  /\ attempt = "none"
  /\ before = [objs |-> <<>>, last |-> 0]
  /\ gone = 0
  /\ spawned = <<0, 0>>
  /\ ResolverIdle
  /\ PassIdle
  /\ RunIdle
  /\ ColourIdle
  /\ DrawIdle
  /\ ClearIdle
  /\ TopologyIdle
  /\ TextIdle
  /\ BallIdle
  /\ ScrollIdle

\* stars.py: one iteration of main()'s loop, L227-230, running
\* update_display(current_time), L178-213
stars_update_display ==
  /\ kind = "shooting_star" /\ ticks < MaxTicks(kind, dt)
  /\ LET current_time == t + dt
         kept == SelectSeq(objs, shooting_alive)
         moved == UpdateLife(kept)
     IN /\ t' = current_time
        /\ before' = [objs |-> moved, last |-> last_spawn]
        /\ \E coin \in BOOLEAN, speed \in ShootingSpeeds :
             IF current_time - last_spawn > shooting_star_interval /\ coin
             THEN /\ objs' = Named(add_shooting_star(moved, speed), current_time)
                  /\ last_spawn' = current_time
                  /\ attempt' = Outcome(Len(moved), Len(objs'))
             ELSE /\ objs' = moved
                  /\ attempt' = "none"
                  /\ UNCHANGED last_spawn
        /\ gone' \in (IF gone = 0 THEN {0} \cup (Born(objs) \ Born(kept)) ELSE {gone})
        /\ spawned' = (IF attempt' = "added" THEN <<spawned[2], current_time>>
                       ELSE spawned)
  /\ ticks' = ticks + 1
  /\ UNCHANGED <<kind, dt, notPop>>

\* stars0.py: one iteration of main()'s loop, L206-209, running
\* update_display(current_time), L157-192
stars0_update_display ==
  /\ kind = "comet" /\ ticks < MaxTicks(kind, dt)
  /\ LET current_time == t + dt
         kept == SelectSeq(objs, comet_alive)
         moved == UpdateLife(kept)
     IN /\ t' = current_time
        /\ before' = [objs |-> moved, last |-> last_spawn]
        /\ \E coin \in BOOLEAN, speed \in CometSpeeds :
             IF current_time - last_spawn > comet_interval /\ coin
             THEN /\ objs' = Named(add_comet(moved, speed), current_time)
                  /\ last_spawn' = current_time
                  /\ attempt' = Outcome(Len(moved), Len(objs'))
             ELSE /\ objs' = moved
                  /\ attempt' = "none"
                  /\ UNCHANGED last_spawn
        /\ gone' \in (IF gone = 0 THEN {0} \cup (Born(objs) \ Born(kept)) ELSE {gone})
        /\ spawned' = (IF attempt' = "added" THEN <<spawned[2], current_time>>
                       ELSE spawned)
  /\ ticks' = ticks + 1
  /\ UNCHANGED <<kind, dt, notPop>>

\* stars01.py: one iteration of main()'s loop, L300-303, running
\* update_display(current_time), L227-286; the planets' timer compares
\* time.time() values, and add_planet() sets it only when it appends
stars01_update_display ==
  /\ kind = "planet" /\ ticks < MaxTicks(kind, dt)
  /\ LET current_time == t + dt
         moved == UpdateLife(objs)
         kept == SelectSeq(moved, planet_alive)
     IN /\ t' = current_time
        /\ before' = [objs |-> kept, last |-> last_spawn]
        /\ \E coin \in BOOLEAN, speed \in PlanetSpeeds :
             IF time_time(current_time) - last_spawn > planet_interval
             THEN /\ objs' = Named(add_planet(kept, speed, coin), current_time)
                  /\ last_spawn' = (IF Len(objs') > Len(kept)
                                    THEN time_time(current_time) ELSE last_spawn)
                  /\ attempt' = (IF Len(kept) < max_planets /\ ~coin THEN "none"
                                 ELSE Outcome(Len(kept), Len(objs')))
             ELSE /\ objs' = kept
                  /\ attempt' = "none"
                  /\ UNCHANGED last_spawn
        /\ gone' \in (IF gone = 0 THEN {0} \cup (Born(objs) \ Born(kept)) ELSE {gone})
        /\ spawned' = (IF attempt' = "added" THEN <<spawned[2], current_time>>
                       ELSE spawned)
  /\ ticks' = ticks + 1
  /\ UNCHANGED <<kind, dt, notPop>>

\* shark.py: one iteration of main()'s loop, L183-186, running
\* update_display(current_time), L147-169
shark_update_display ==
  /\ kind = "bubble" /\ ticks < MaxTicks(kind, dt)
  /\ LET current_time == t + dt
         kept == SelectSeq(objs, above_bottom)
         moved == UpdateY(kept)
     IN /\ t' = current_time
        /\ before' = [objs |-> moved, last |-> last_spawn]
        /\ \E coin \in BOOLEAN, speed \in BubbleSpeeds :
             IF current_time - last_spawn > bubble_interval /\ coin
             THEN /\ objs' = Named(add_bubble(moved, speed), current_time)
                  /\ last_spawn' = current_time
                  /\ attempt' = Outcome(Len(moved), Len(objs'))
             ELSE /\ objs' = moved
                  /\ attempt' = "none"
                  /\ UNCHANGED last_spawn
        /\ gone' \in (IF gone = 0 THEN {0} \cup (Born(objs) \ Born(kept)) ELSE {gone})
        /\ spawned' = (IF attempt' = "added" THEN <<spawned[2], current_time>>
                       ELSE spawned)
  /\ ticks' = ticks + 1
  /\ UNCHANGED <<kind, dt, notPop>>

\* rabit.py: one iteration of main()'s loop, L176-179, running
\* update_display(current_time), L141-162
rabit_update_display ==
  /\ kind = "flower" /\ ticks < MaxTicks(kind, dt)
  /\ LET current_time == t + dt
         kept == SelectSeq(objs, above_bottom)
     IN /\ t' = current_time
        /\ before' = [objs |-> kept, last |-> last_spawn]
        /\ \E coin \in BOOLEAN, y \in FlowerRows :
             IF current_time - last_spawn > flower_interval /\ coin
             THEN /\ objs' = Named(add_flower(kept, y), current_time)
                  /\ last_spawn' = current_time
                  /\ attempt' = Outcome(Len(kept), Len(objs'))
             ELSE /\ objs' = kept
                  /\ attempt' = "none"
                  /\ UNCHANGED last_spawn
        /\ gone' \in (IF gone = 0 THEN {0} \cup (Born(objs) \ Born(kept)) ELSE {gone})
        /\ spawned' = (IF attempt' = "added" THEN <<spawned[2], current_time>>
                       ELSE spawned)
  /\ ticks' = ticks + 1
  /\ UNCHANGED <<kind, dt, notPop>>

NextPop ==
  \/ stars_update_display
  \/ stars0_update_display
  \/ stars01_update_display
  \/ shark_update_display
  \/ rabit_update_display

SpecPop == InitPop /\ [][NextPop]_vars

(***************************************************************************)
(* Properties of the resolvers.                                            *)
(***************************************************************************)

\* C1: every canvas resolver is total: a call returns an index in
\* [0, LED_COUNT) exactly when 0 <= x < width and 0 <= y < height, and -1
\* for every other pair, negative coordinates included.
C1_ResolverTotal ==
  (rpc = "done" /\ rvariant \in CanvasVariants) =>
     IF InCanvas(rvariant, rx, ry)
     THEN 0 <= ridx /\ ridx < LED_COUNT
     ELSE ridx = OUT_OF_RANGE

C1_Witness ==
  /\ rpc = "done" /\ rvariant = "ball"
  /\ rx < 0 /\ ry \in 0..(GRID_DISPLAY_HEIGHT - 1)
  /\ ridx = OUT_OF_RANGE

\* C2: on its canvas every resolver is injective: during a pass over the
\* canvas no write lands on an index an earlier coordinate wrote, and the
\* index -> coordinate map the pass leaves is an inverse: it takes the
\* index of every in-canvas (x, y) back to (x, y).
C2_Injective ==
  /\ ~pcollide
  /\ ppc = "shown" =>
       \A x \in 0..(Width(pvariant) - 1), y \in 0..(Height(pvariant) - 1) :
          /\ Resolve(pvariant, x, y) \in DOMAIN powner
          /\ powner[Resolve(pvariant, x, y)] = <<x, y>>

C2_Witness ==
  /\ ppc = "shown" /\ pvariant = "text01"
  /\ Resolve("text01", 0, 1) \in DOMAIN powner
  /\ powner[Resolve("text01", 0, 1)] = <<0, 1>>

\* C3: every resolver is dense: after the pass over the whole canvas every
\* physical index of [0, LED_COUNT) has been written, by exactly one
\* coordinate (LED_COUNT writes in all).
C3_Dense ==
  ppc = "shown" =>
     /\ DOMAIN powner = 0..(LED_COUNT - 1)
     /\ pwrites = LED_COUNT

C3_Witness ==
  /\ ppc = "shown" /\ pvariant = "text"
  /\ Cardinality(DOMAIN powner) = LED_COUNT

\* the scripts whose tick starts with a pass over the whole canvas:
\* display_frame (video.py), display_ball (ball.py) and the background
\* loops of update_display (stars.py, shark.py, rabit.py)
FullCanvasPasses == {"video", "ball", "stars", "shark", "rabit"}

\* the device pixels the pass has not written: they hold what the frame
\* before left there
Stale == (0..(LED_COUNT - 1)) \ DOMAIN powner

\* C28: a full-canvas pass writes at every coordinate it visits, never on an
\* index it has written before, and when the flush comes it has written
\* LED_COUNT times and no device pixel holds the value of an earlier frame.
C28_FullCanvasPass ==
  pvariant \in FullCanvasPasses =>
     /\ pwrites = (py * Width(pvariant)) + px
     /\ Cardinality(DOMAIN powner) = pwrites
     /\ ppc = "shown" => (Stale = {} /\ pwrites = LED_COUNT)

\* shark.py's background pass at its flush: the last coordinate wrote the
\* last pixel that was stale
C28_Witness ==
  /\ ppc = "shown" /\ pvariant = "shark"
  /\ Stale = {}
  /\ powner[Resolve("shark", GRID_DISPLAY_WIDTH - 1, GRID_DISPLAY_HEIGHT - 1)]
        = <<GRID_DISPLAY_WIDTH - 1, GRID_DISPLAY_HEIGHT - 1>>

\* C4 as stated: with the layout documented in ball.py (and video.py),
\* resolve(0,0) = 0, resolve(15,0) = 15, resolve(0,1) = 31, resolve(16,0) = 256.
C4_AsStated ==
  (rpc = "done" /\ rvariant \in {"ball", "video"}) =>
     /\ (rx = 0 /\ ry = 0) => ridx = 0
     /\ (rx = 15 /\ ry = 0) => ridx = 15
     /\ (rx = 0 /\ ry = 1) => ridx = 31
     /\ (rx = 16 /\ ry = 0) => ridx = 256

\* C4 amended: in ball.py and video.py canvas row 0 is the top row, held by
\* panels 2 and 3, so the scenario's values are those of the bottom half:
\* resolve(0,16) = 0, resolve(15,16) = 15, resolve(0,17) = 31,
\* resolve(16,16) = 256, while resolve(0,0) = 512, resolve(15,0) = 527,
\* resolve(0,1) = 543 and resolve(16,0) = 768; text0.py's row-major panel
\* order gives 0, 15, 31, 256 at (0,0), (15,0), (0,1), (16,0).
C4_Amended ==
  /\ (rpc = "done" /\ rvariant \in {"ball", "video"}) =>
       /\ (rx = 0 /\ ry = 16) => ridx = 0
       /\ (rx = 15 /\ ry = 16) => ridx = 15
       /\ (rx = 0 /\ ry = 17) => ridx = 31
       /\ (rx = 16 /\ ry = 16) => ridx = 256
       /\ (rx = 0 /\ ry = 0) => ridx = 512
       /\ (rx = 15 /\ ry = 0) => ridx = 527
       /\ (rx = 0 /\ ry = 1) => ridx = 543
       /\ (rx = 16 /\ ry = 0) => ridx = 768
  /\ (rpc = "done" /\ rvariant = "text0") =>
       /\ (rx = 0 /\ ry = 0) => ridx = 0
       /\ (rx = 15 /\ ry = 0) => ridx = 15
       /\ (rx = 0 /\ ry = 1) => ridx = 31
       /\ (rx = 16 /\ ry = 0) => ridx = 256

C4_Witness ==
  rpc = "done" /\ rvariant = "ball" /\ rx = 0 /\ ry = 17 /\ ridx = 31

\* the index a row-major mapping without serpentine gives (x, y) of panel p
RowMajorIndex(p, x, y) == (p * LED_PANEL_SIZE) + (y * PANEL_WIDTH) + x

\* C5: the per-panel resolvers of chain.py and angle.py map (x, y) of panel
\* p to p*256 + y*16 + x on even rows and to p*256 + y*16 + (15 - x) on odd
\* rows; (0, 1) gets the index a row-major mapping gives (15, 1).
C5_Serpentine ==
  (/\ rpc = "done" /\ rvariant \in PanelVariants
   /\ 0 <= rx /\ rx < PANEL_WIDTH /\ 0 <= ry /\ ry < PANEL_HEIGHT) =>
     /\ ry % 2 = 0 => ridx = RowMajorIndex(rpanel, rx, ry)
     /\ ry % 2 = 1 => ridx = RowMajorIndex(rpanel, PANEL_WIDTH - 1 - rx, ry)
     /\ (rx = 0 /\ ry = 1) => ridx = (rpanel * 256) + (1 * 16) + 15

C5_Witness ==
  /\ rpc = "done" /\ rvariant = "chain"
  /\ rpanel = 3 /\ rx = 0 /\ ry = 1
  /\ ridx = RowMajorIndex(3, 15, 1)

\* the panel a physical index lies in, and its offset within the panel
PanelOf(index) == index \div LED_PANEL_SIZE
OffsetOf(index) == index % LED_PANEL_SIZE

\* the resolver variants with the canvas of v
SameCanvas(v) ==
  {w \in CanvasVariants : Width(w) = Width(v) /\ Height(w) = Height(v)}

\* the canvas coordinates of the panels' top left corners
PanelOrigins(v) ==
  {c \in {0, 16, 32, 48} \X {0, 16} : InCanvas(v, c[1], c[2])}

\* the panel of w that holds the canvas area v gives to its panel p
PanelMap(v, w) ==
  [p \in 0..(NUM_PANELS - 1) |->
     LET c == CHOOSE c \in PanelOrigins(v) : PanelOf(Resolve(v, c[1], c[2])) = p
     IN PanelOf(Resolve(w, c[1], c[2]))]

IsPermutation(f) ==
  {f[p] : p \in DOMAIN f} = DOMAIN f

\* C22 as stated: two resolver variants with the same canvas differ in the
\* panel order only: there is a permutation P of the four panels such that
\* for every in-canvas (x, y) both return the same offset within the panel
\* and panel numbers related by P.
C22_AsStated ==
  (rpc = "done" /\ rvariant \in CanvasVariants /\ InCanvas(rvariant, rx, ry)) =>
     \A w \in SameCanvas(rvariant) :
        /\ IsPermutation(PanelMap(rvariant, w))
        /\ PanelOf(Resolve(w, rx, ry)) = PanelMap(rvariant, w)[PanelOf(ridx)]
        /\ OffsetOf(Resolve(w, rx, ry)) = OffsetOf(ridx)

\* the variants that mirror the column inside the panel (text02.py L52)
MirrorsColumn(v) ==
  v \in {"text02", "stars", "stars0", "stars01", "shark", "rabit"}
\* the variants that turn the canvas upside down (text03.py L121)
FlipsRows(v) == v \in {"text03", "text04", "textfire"}

\* the offset w gives the pixel that v puts at offset o of a panel
OffsetMap(v, w, o) ==
  IF MirrorsColumn(v) # MirrorsColumn(w)
  THEN (o \div PANEL_WIDTH) * PANEL_WIDTH + (PANEL_WIDTH - 1 - (o % PANEL_WIDTH))
  ELSE IF FlipsRows(v) # FlipsRows(w)
  THEN LED_PANEL_SIZE - 1 - o
  ELSE o

\* C22 amended: two resolver variants with the same canvas differ in the
\* panel order and in the orientation inside the panel: the panel numbers
\* are related by a permutation of the four panels, and the offsets within
\* the panel are equal, or mirrored within the row (between ball, video,
\* text0, text01 and text02, stars, stars0, stars01, shark, rabit), or
\* turned by 180 degrees, offset 255 - o (between main, text and text03,
\* text04, textfire).
C22_Amended ==
  (rpc = "done" /\ rvariant \in CanvasVariants /\ InCanvas(rvariant, rx, ry)) =>
     \A w \in SameCanvas(rvariant) :
        /\ IsPermutation(PanelMap(rvariant, w))
        /\ PanelOf(Resolve(w, rx, ry)) = PanelMap(rvariant, w)[PanelOf(ridx)]
        /\ OffsetOf(Resolve(w, rx, ry)) = OffsetMap(rvariant, w, OffsetOf(ridx))

\* text02.py puts (0, 0) at offset 15 of panel 0, text0.py at offset 0
C22_Witness ==
  /\ rpc = "done" /\ rvariant = "text02"
  /\ rx = 0 /\ ry = 0
  /\ ridx = 15
  /\ Resolve("text0", rx, ry) = 0

\* the index of (x, y) when the serpentine parity is taken from the global
\* row y: the panel and the column come from the even row of the pair of
\* rows y belongs to, the column is mirrored when y is odd
GlobalRowIndex(v, x, y) ==
  LET even == Resolve(v, x, y - (y % 2))
      column == even % PANEL_WIDTH
  IN (PanelOf(even) * LED_PANEL_SIZE) + ((y % PANEL_HEIGHT) * PANEL_WIDTH)
       + (IF y % 2 = 1 THEN PANEL_WIDTH - 1 - column ELSE column)

\* C27: in the 2x2 grid resolvers the parity of the panel-local row is the
\* parity of the global row, and the index the resolver returns for an
\* in-canvas point is the index computed with the global row's parity.
C27_ParityConventionsAgree ==
  (rpc = "done" /\ rvariant \in GridVariants /\ InCanvas(rvariant, rx, ry)) =>
     /\ (ry % PANEL_HEIGHT) % 2 = ry % 2
     /\ ridx = GlobalRowIndex(rvariant, rx, ry)

\* an odd row of the lower panel row: local row 1, global row 17
C27_Witness ==
  /\ rpc = "done" /\ rvariant = "text0"
  /\ rx = 3 /\ ry = PANEL_HEIGHT + 1
  /\ ridx = (2 * LED_PANEL_SIZE) + PANEL_WIDTH + (PANEL_WIDTH - 1 - 3)
  /\ ridx = GlobalRowIndex(rvariant, rx, ry)

(***************************************************************************)
(* Properties of the life cycle.                                           *)
(***************************************************************************)

\* C6: in every render tick all pixel writes precede the tick's one flush:
\* among the device calls of a tick no show() is followed by another call,
\* so no intermediate frame is shown.  Must hold for snake_effect and
\* bouncing_ball of main.py as for the update_display loops.
C6_AsStated ==
  \A i \in 1..(Len(tickLog) - 1) : tickLog[i] # "s"

\* C7: when a signal arrived while an animation loop was running, the
\* process has done exactly one clearing flush between the signal and its
\* end.
C7_AsStated ==
  (pc = "exited" /\ sigInLoop) => clearsAfterSignal = 1

\* C8: once a signal has been handled, the render code writes and flushes
\* no further frame: the signal is never swallowed.
C8_AsStated ==
  ~resumed

\* C9: on every exit path the last flush before the process ends is a
\* clearing flush: it showed an all-black buffer.
C9_AsStated ==
  (pc = "exited" /\ lastFlush # "none") => shown = "black"

\* C14: a device transfer failure is fatal for the session: after
\* strip.show() has raised, the render code writes and flushes no further
\* frame; the failure is never caught to carry on with the next frame, word
\* or animation step.
C14_AsStated ==
  ~afterFault

\* C18: every flush a clear routine issues shows an all-black buffer: the
\* show() of clear_display / clear_strip comes when every pixel has been
\* written black, in the main thread and in the signal handler, also when
\* a signal arrived while the render loop or another clear was inside its
\* pixel loop.
C18_NoPartialClear ==
  /\ lastFlush = "clear" => shown = "black"
  /\ (Live /\ Cur.op = "cshow") => buf = "black"
  /\ hpc = "h_show" => buf = "black"

\* a signal arrived inside the pixel loop of a clear, and the handler has
\* flushed its own clear
C18_Witness ==
  /\ Alive /\ Cur.op = "cwrite" /\ wmid
  /\ hpc = "h_exit"
  /\ lastFlush = "clear"

\* the render loop is between the first pixel write and the flush of a frame
InFrame ==
  /\ Alive
  /\ \/ Cur.op \in {"writes", "bwrites"} /\ wmid
     \/ Cur.op = "show"

\* C19: the device handle is owned by the rendering loop alone: no signal
\* handler issues setPixelColor or show() on the device while the rendering
\* loop is between the first pixel write and the flush of a frame.
C19_AsStated ==
  ~(InFrame /\ hpc \in {"h_show", "h_exit"})

\* C25: in the scripts whose handler uses the module-level name controller
\* the handler only runs once controller is bound: no SIGINT is delivered
\* while the handler is installed and controller is still undefined.
C25_AsStated ==
  (Alive /\ ~MethodHandler(script) /\ hpc # "none") => bound

(***************************************************************************)
(* Properties of the populations.                                          *)
(***************************************************************************)

\* C10: after any sequence of ticks and spawn attempts the live list is no
\* longer than its maximum: 5 shooting stars, 5 comets, 8 planets,
\* 10 bubbles, 10 flowers.
C10_PopulationCap ==
  /\ kind = "shooting_star" => Len(objs) <= 5
  /\ kind = "comet" => Len(objs) <= 5
  /\ kind = "planet" => Len(objs) <= 8
  /\ kind = "bubble" => Len(objs) <= 10
  /\ kind = "flower" => Len(objs) <= 10

\* a tick attempted a spawn with the list of bubbles at its maximum
C10_Witness ==
  kind = "bubble" /\ Len(objs) = max_bubbles /\ attempt = "full"

\* C15: a spawn attempt made while the live list is at its maximum is a
\* no-op: the object list and the spawn timer after the attempt equal what
\* they were before it.
C15_AsStated ==
  attempt = "full" => (objs = before.objs /\ last_spawn = before.last)

\* the removal predicate of the claim, on an object of the list the removal
\* step of the last tick left (shooting stars, comets and bubbles are
\* updated after the step, planets before it, flowers never)
PassedRemoval(o) ==
  CASE kind = "shooting_star" -> ~(o.v - o.speed >= shooting_max_life)
    [] kind = "comet" -> ~(o.v - o.speed >= comet_max_life)
    [] kind = "planet" -> ~(o.v > planet_max_life)
    [] kind = "bubble" -> ~(o.v + o.speed <= 0)
    [] kind = "flower" -> ~(o.v <= 0)

\* C16: an object whose life/position predicate is false when a tick's
\* removal step runs is absent from the list the step leaves, which is the
\* list the tick draws; and an object a removal step has dropped is in no
\* later list: it is not drawn again and never re-enters.
C16_RemovedStayGone ==
  /\ \A i \in 1..Len(before.objs) : PassedRemoval(before.objs[i])
  /\ gone # 0 => gone \notin Born(before.objs) \cup Born(objs)

\* a bubble was dropped, and a later tick added a new bubble
C16_Witness ==
  /\ kind = "bubble"
  /\ gone # 0
  /\ attempt = "added"
  /\ t > gone + GRID_DISPLAY_HEIGHT \div 2

\* C17: two consecutive successful spawns of one kind are separated by
\* more than the kind's interval of elapsed time (0.5 s; 2.0 s for
\* planets), and a tick spawns at most one object of the kind.
C17_MinimumInterval ==
  /\ spawned[1] # 0 => spawned[2] - spawned[1] > Interval(kind)
  /\ Len(objs) <= Len(before.objs) + 1
  /\ Cardinality({i \in 1..Len(objs) : objs[i].born = t}) <= 1

\* a second planet was spawned
C17_Witness ==
  /\ kind = "planet"
  /\ spawned[1] # 0
  /\ attempt = "added"

(***************************************************************************)
(* SpecColour: the colours the animations hand to the device.  A float is  *)
(* a whole number of 1/Unit; sin(), cos() and random.random() are choices  *)
(* from small sets spanning their ranges, since t and the random draws are *)
(* arbitrary.  Each action is one computation of a pixel's colour as far   *)
(* as the Color(r, g, b) that strip.setPixelColor receives.                *)
(***************************************************************************)
\* the float 1.0
Unit == 100

\* int(n / d): truncation towards zero
int(n, d) == IF n >= 0 THEN n \div d ELSE 0 - ((0 - n) \div d)

min(a, b) == IF a < b THEN a ELSE b
max(a, b) == IF a > b THEN a ELSE b

\* values of sin(...) and cos(...)
Sines == {0 - Unit, 0 - (Unit \div 2), 0, Unit \div 2, Unit}
\* values of random.random(), in [0, 1)
Randoms == {0, Unit \div 2, Unit - 1}
\* values of a hue after % 1.0, in [0, 1): one in each sextant and the ends
Hues == {0, 10, 17, 40, 50, 70, 90, Unit - 1}
\* values of a byte of an image (numpy uint8) or of a colour table
Bytes == {0, 1, 128, 200, 255}

\* colorsys.hsv_to_rgb, and its copy in text.py: the three results are
\* numerators over Unit^3
hsv_to_rgb(h, s, v) ==
  IF s = 0
  THEN <<v * Unit * Unit, v * Unit * Unit, v * Unit * Unit>>
  ELSE LET i == int(h * 6, Unit)
           f == h * 6 - i * Unit
           p == v * (Unit - s) * Unit
           q == v * (Unit * Unit - s * f)
           tt == v * (Unit * Unit - s * (Unit - f))
           vv == v * Unit * Unit
           k == i % 6
       IN CASE k = 0 -> <<vv, tt, p>>
            [] k = 1 -> <<q, vv, p>>
            [] k = 2 -> <<p, vv, tt>>
            [] k = 3 -> <<p, q, vv>>
            [] k = 4 -> <<tt, p, vv>>
            [] k = 5 -> <<vv, p, q>>

\* the arguments hsv_to_color gives to Color: int(r * 255), int(g * 255),
\* int(b * 255); also tuple(int(c * 255) for c in rgb)
hsv_to_color(h, s, v) ==
  LET rgb == hsv_to_rgb(h, s, v)
  IN [n \in 1..3 |-> int(rgb[n] * 255, Unit * Unit * Unit)]

\* tuple(int(c * m) for c in color), m in 1/d
scaled(color, m, d) == [n \in 1..3 |-> int(color[n] * m, d)]

\* strip.setPixelColor(pixel_index, Color(*c)) by the code named s, which
\* applied the multiplier m to channels up to b; a run of the specification
\* follows one colour, as no computation reads what an earlier one left
Device(s, c, m, b) ==
  /\ site = "none"
  /\ site' = s
  /\ chan' = c
  /\ cmult' = m
  /\ cbase' = b
  /\ UNCHANGED notColour

largest(c) == max(c[1], max(c[2], c[3]))

\* main.py interference_waves, L93-103: each of the four sources adds
\* sin(...) * exp(-...), a value in [-1, 1]
interference_waves ==
  \E w1 \in Sines, w2 \in Sines, w3 \in Sines, w4 \in Sines, hue \in Hues :
    LET intensity == (w1 + w2 + w3 + w4 + 4 * Unit) \div (2 * 4)
    IN Device("interference_waves", hsv_to_color(hue, Unit, intensity), intensity, 255)

\* main.py snake_effect, L136-169: get_trail_color for position pos of a
\* trail of at most length entries (20 by default, 2 from menu choice 6),
\* then the glow of the rows above and below at half intensity; the colour
\* is packed by Color (for channels in 0..255: r << 16 | g << 8 | b) and
\* read back byte by byte, L163-165
snake_effect ==
  \E length \in {20, 2}, hue \in Hues, glow \in {Unit, Unit \div 2} :
    \E pos \in 0..(length - 1) :
      LET distance == length - pos
          intensity == Unit - (distance * Unit) \div length
          trail == IF intensity <= 0 THEN <<0, 0, 0>>
                   ELSE hsv_to_color(hue, Unit, intensity)
          color == trail[1] * 65536 + trail[2] * 256 + trail[3]
          r == (color \div 65536) % 256
          g == (color \div 256) % 256
          b == color % 256
      IN Device("snake_effect", scaled(<<r, g, b>>, glow, Unit), glow, largest(trail))

\* main.py bouncing_ball, L237-250: entry i of a trail of n positions and
\* its glow at distance sqrt(dx*dx + dy*dy), one of 0, 1, 1.41
bouncing_ball ==
  \E n \in 1..8, hue \in Hues, root \in {0, Unit, 141} :
    \E i \in 0..(n - 1) :
      LET intensity == Unit - (i * Unit) \div n
          glow_intensity == (intensity * Unit) \div (Unit + root)
      IN Device("bouncing_ball", hsv_to_color(hue, Unit, glow_intensity), glow_intensity, 255)

\* text.py pulse_animation, L99-108: a pixel of the text image times the
\* pulse intensity
pulse_animation ==
  \E sn \in Sines, r \in Bytes, g \in Bytes, b \in Bytes :
    LET intensity == ((sn + Unit) * 8) \div 20 + 20
    IN Device("pulse_animation", scaled(<<r, g, b>>, intensity, Unit), intensity,
              largest(<<r, g, b>>))

\* text.py sparkle_animation, L151-153: one channel
sparkle(c, intensity) == min(255, int(c * intensity, Unit))

\* text.py sparkle_animation, L147-156: a pixel of the text image that is
\* not black, brighter where the sparkle mask is set
sparkle_animation ==
  \E mask \in BOOLEAN, r \in Bytes, g \in Bytes, b \in Bytes :
    /\ <<r, g, b>> # <<0, 0, 0>>
    /\ LET intensity == IF mask THEN 150 ELSE 100
       IN Device("sparkle_animation",
                 <<sparkle(r, intensity), sparkle(g, intensity), sparkle(b, intensity)>>,
                 intensity, largest(<<r, g, b>>))

\* text03.py get_super_rainbow, L91-115, with the parameters main() sets
\* (base_brightness 0.85, saturation 0.85, sparkle_amount 0.4)
get_super_rainbow ==
  \E hue \in Hues, s1 \in Sines, p1 \in Sines, p2 \in Sines, p3 \in Sines,
     spark \in {0, 20, 30, 40} :
    LET saturation == 85 + int(s1 * 15, Unit)
        pulse1 == int(p1 * 15, Unit)
        pulse2 == int(p2 * 10, Unit)
        pulse3 == int(p3 * 10, Unit)
        brightness == min(Unit, 85 + pulse1 + pulse2 + pulse3)
        sparkled == IF spark > 0 THEN min(Unit, brightness + spark) ELSE brightness
    IN Device("get_super_rainbow", hsv_to_color(hue, saturation, sparkled), sparkled, 255)

\* stars.py get_shooting_star_color, L52-59
shooting_star_colors ==
  {<<255, 255, 255>>, <<255, 200, 200>>, <<200, 200, 255>>, <<255, 255, 200>>}

\* stars.py Star.update, L70: a shooting star's brightness at its new life
shooting_brightness_unclamped(life) ==
  Unit - (life * Unit) \div shooting_max_life

shooting_brightness(life) ==
  max(0, Unit - (life * Unit) \div shooting_max_life)

\* stars.py Star.update of a shooting star, L66-71, on a star the removal
\* filter kept (life < max_life before the update), and the trail of
\* update_display, L197-206
Star_update_shooting ==
  \E old_life \in {0, shooting_max_life \div 2, shooting_max_life - 1},
     speed \in ShootingSpeeds, color \in shooting_star_colors, trail_length \in 3..6 :
    \E i \in 0..(trail_length - 1) :
      LET life == old_life + speed
          brightness == shooting_brightness(life)
          rgb == scaled(color, brightness * 90, Unit * Unit)
      IN Device("Star.update shooting", scaled(rgb, trail_length - i, trail_length),
                brightness, largest(color))

\* stars.py Star.update of a fixed star, L73-75, whose colour is get_color(),
\* L61-63, and whose max_brightness is in [0.2, 0.6)
Star_update_twinkle ==
  \E sn \in Sines, base_hue \in Hues, max_brightness \in {20, 40, 59} :
    LET color == hsv_to_color(base_hue, 90, 70)
        brightness == ((sn + Unit) * max_brightness) \div (2 * Unit)
    IN Device("Star.update twinkle", scaled(color, brightness, Unit), brightness,
              largest(color))

\* stars0.py Comet.update, L54-59, on a comet the removal filter kept
\* (life < max_life before the update), and the trail of update_display,
\* L176-185; get_comet_color has the table of get_shooting_star_color
Comet_update ==
  \E old_life \in {0, comet_max_life \div 2, comet_max_life - 1},
     speed \in CometSpeeds, color \in shooting_star_colors, trail_length \in 3..6 :
    \E i \in 0..(trail_length - 1) :
      LET life == old_life + speed
          brightness == max(0, Unit - (life * Unit) \div comet_max_life)
          rgb == scaled(color, brightness, Unit)
      IN Device("Comet.update", scaled(rgb, trail_length - i, trail_length),
                brightness, largest(color))

\* stars01.py update_display, L259-268: the glow of a planet at a pixel
\* whose distance from the centre is part/4 of glow_size, with
\* glow_brightness in [0.3, 0.7); the planet's colour comes from the hue,
\* saturation and value of Planet.__init__, L45-57
planet_glow ==
  \E type \in {<<0, Unit, Unit>>, <<10, 80, 90>>, <<30, 70, Unit>>, <<60, 90, 80>>,
               <<80, 70, 90>>, <<95, 60, Unit>>}
               \cup {<<h, 80 + r1 \div 5, 60 + (r2 * 4) \div 10>> :
                       h \in {0, Unit - 1}, r1 \in Randoms, r2 \in Randoms},
     part \in 0..4, glow_brightness \in {30, 50, 69} :
    LET color == hsv_to_color(type[1], type[2], type[3])
        brightness == ((4 - part) * glow_brightness) \div 4
    IN Device("planet glow", scaled(color, brightness, Unit), brightness, largest(color))

\* text0.py apply_color_animation, L124-156, on the colours __init__ sets
\* (L86-87): RAINBOW, PULSE and GRADIENT compute channels
apply_color_animation ==
  \E style \in {"RAINBOW", "PULSE", "GRADIENT"}, hue \in Hues, sn \in Sines :
    LET primary_color == <<128, 0, 0>>
        secondary_color == <<0, 0, 128>>
        ratio == (sn + Unit) \div 2
    IN CASE style = "RAINBOW" ->
              Device("apply_color_animation", hsv_to_color(hue, Unit, Unit \div 2),
                     Unit \div 2, 255)
         [] style = "PULSE" ->
              Device("apply_color_animation", scaled(primary_color, ratio, Unit),
                     ratio, largest(primary_color))
         [] style = "GRADIENT" ->
              Device("apply_color_animation",
                     [n \in 1..3 |-> int(primary_color[n] * ratio
                                         + secondary_color[n] * (Unit - ratio), Unit)],
                     ratio, largest(primary_color))

\* textfire.py get_fire_color, L63-77, on the fire_colors of L42-48:
\* blend = random.random() * 0.3 + 0.7
get_fire_color ==
  \E color_index \in 0..4, rnd \in Randoms :
    LET fire_colors == <<(<<255, 0, 0>>), (<<255, 60, 0>>), (<<255, 120, 0>>),
                         (<<255, 180, 0>>), (<<255, 220, 0>>)>>
        color1 == fire_colors[color_index + 1]
        color2 == fire_colors[((color_index + 1) % Len(fire_colors)) + 1]
        blend == (rnd * 3) \div 10 + 70
    IN Device("get_fire_color",
              [n \in 1..3 |-> int(color1[n] * blend + color2[n] * (Unit - blend), Unit)],
              blend, largest(color1))

\* text04.py apply_effect, L120-134: SPARKLE (get_sparkle_color, L115-118)
\* and PULSE with brightness_factor 1.0 (__init__) or 0.9 (main), on the
\* colours of ColorPalette, L34-53
apply_effect ==
  \E effect \in {"SPARKLE", "PULSE"}, sn \in Sines,
     color \in {<<255, 0, 128>>, <<0, 255, 255>>, <<255, 0, 255>>, <<0, 255, 128>>,
                <<255, 99, 71>>, <<255, 127, 80>>, <<255, 165, 0>>, <<255, 192, 203>>,
                <<0, 191, 255>>, <<30, 144, 255>>, <<127, 255, 212>>},
     brightness_factor \in {Unit, 90} :
    LET magnitude == IF sn < 0 THEN 0 - sn ELSE sn
        sparkle_level == (magnitude * 3) \div 10 + 70
        intensity == (((sn * 3) \div 10 + 70) * brightness_factor) \div Unit
    IN IF effect = "SPARKLE"
       THEN Device("apply_effect", scaled(color, sparkle_level, Unit), sparkle_level,
                   largest(color))
       ELSE Device("apply_effect", scaled(color, intensity, Unit), intensity,
                   largest(color))

\* shark.py Shark.draw, L43-50 (rabit.py Rabbit.draw, L20-31): the tail
Shark_draw ==
  \E sn \in Sines, color \in {<<0, 0, 255>>, <<255, 165, 0>>} :
    LET tail_brightness == (sn + Unit) \div 2
    IN Device("Shark.draw", scaled(color, tail_brightness, Unit), tail_brightness,
              largest(color))

InitColour ==
  /\ ColourIdle
  /\ ResolverIdle
  /\ PassIdle
  /\ RunIdle
  /\ PopIdle
  /\ DrawIdle
  /\ ClearIdle
  /\ TopologyIdle
  /\ TextIdle
  /\ BallIdle
  /\ ScrollIdle

NextColour ==
  \/ interference_waves
  \/ snake_effect
  \/ bouncing_ball
  \/ pulse_animation
  \/ sparkle_animation
  \/ get_super_rainbow
  \/ Star_update_shooting
  \/ Star_update_twinkle
  \/ Comet_update
  \/ planet_glow
  \/ apply_color_animation
  \/ get_fire_color
  \/ apply_effect
  \/ Shark_draw

SpecColour == InitColour /\ [][NextColour]_vars

\* C11: every colour channel value passed to the device is an integer in
\* [0, 255], in every reachable state of every animation, for all elapsed
\* times and random draws.
C11_ChannelsInRange ==
  \A n \in 1..3 : chan[n] \in 0..255

\* a shooting star whose update took its life past max_life was drawn
C11_Witness ==
  /\ site = "Star.update shooting"
  /\ cmult = 0
  /\ chan = <<0, 0, 0>>

(***************************************************************************)
(* SpecConvert: the two intensity-to-channel conversions called on their   *)
(* own, on intensities up to 1.5.                                          *)
(***************************************************************************)
\* main.py hsv_to_color(h, s, v), L74-77, for v up to 1.5, 1.35 included:
\* the channel that carries v is the full-scale channel times v
call_hsv_to_color ==
  \E h \in Hues, s \in {0, Unit \div 2, 90, Unit},
     v \in {0, 25, 50, 75, Unit, 135, 150} :
    Device("hsv_to_color", hsv_to_color(h, s, v), v, 255)

\* text.py sparkle_animation, L150-153, on one pixel of the text image
call_sparkle ==
  \E c \in Bytes, intensity \in {Unit, 150} :
    Device("sparkle", <<sparkle(c, intensity), sparkle(c, intensity), sparkle(c, intensity)>>,
           intensity, c)

InitConvert == InitColour

NextConvert == call_hsv_to_color \/ call_sparkle

SpecConvert == InitConvert /\ [][NextConvert]_vars

\* C12: a multiplier above 1.0 applied to a full-scale channel gives
\* exactly 255: the multiplier is applied first and the clamp to 255
\* afterwards, in hsv_to_color as in the sparkle computation.
C12_AsStated ==
  (cmult > Unit /\ cbase = 255) => largest(chan) = 255

(***************************************************************************)
(* SpecDraw: the sparse draws of one frame.  Each action is one call of a  *)
(* drawing routine on an object at or beyond an edge of the canvas: it     *)
(* resolves every coordinate of its loops and gives the indices that are   *)
(* >= 0 to strip.setPixelColor.                                            *)
(***************************************************************************)
\* the coordinates of the loops for dy in range(-size, size + 1):
\* for dx in range(-size, size + 1), kept when dx*dx + dy*dy <= size*size
Disc(x, y, size) ==
  LET side == 2 * size + 1
      all == [k \in 1..(side * side) |->
                [dx |-> ((k - 1) % side) - size, dy |-> ((k - 1) \div side) - size]]
      inside(d) == d.dx * d.dx + d.dy * d.dy <= size * size
      kept == SelectSeq(all, inside)
  IN [k \in 1..Len(kept) |-> <<x + kept[k].dx, y + kept[k].dy>>]

\* the coordinates of the loop for i in range(trail_length) of a trail that
\* points back along (cx, cy)
Trail(x, y, cx, cy, trail_length) ==
  [k \in 1..trail_length |-> <<x - (k - 1) * cx, y - (k - 1) * cy>>]

\* pixel_index = get_pixel_index(x, y); if pixel_index >= 0:
\* strip.setPixelColor(pixel_index, ...), for every coordinate of pts
guarded_writes_unguarded(v, pts) ==
  [k \in 1..Len(pts) |-> Resolve(v, pts[k][1], pts[k][2])]

guarded_writes(v, pts) ==
  LET index == [k \in 1..Len(pts) |-> Resolve(v, pts[k][1], pts[k][2])]
      valid(pixel_index) == pixel_index >= 0
  IN SelectSeq(index, valid)

\* one drawing call by the code named s of script v
Draw(s, v, pts) ==
  /\ dn < MaxDraws
  /\ dn' = dn + 1
  /\ dsite' = s
  /\ dpts' = pts
  /\ dlog' = guarded_writes(v, pts)
  /\ dprev' = dbuf
  /\ dbuf' = dbuf \cup {dlog'[k] : k \in 1..Len(dlog')}
  /\ UNCHANGED notDraw

\* the script a drawing routine belongs to
ScriptOf(s) ==
  CASE s = "set_pixel" -> "main"
    [] s = "Bubble.draw" -> "shark"
    [] s = "Flower.draw" -> "rabit"
    [] s = "shooting star" -> "stars"
    [] s = "planet" -> "stars01"

\* main.py set_pixel(x, y, color), L68-72
set_pixel ==
  /\ dsite \in {"none", "set_pixel"}
  /\ \E x \in {0 - 1, 0, TOTAL_WIDTH - 1, TOTAL_WIDTH},
        y \in {0 - 1, 0, PANEL_HEIGHT - 1, PANEL_HEIGHT} :
       Draw("set_pixel", "main", <<(<<x, y>>)>>)

\* shark.py Bubble.draw, L76-82: a bubble starts at y = DISPLAY_HEIGHT and
\* is drawn after each update, also the one that takes y to 0 or below
Bubble_draw ==
  /\ dsite \in {"none", "Bubble.draw"}
  /\ \E x \in {0, GRID_DISPLAY_WIDTH - 1},
        y \in {0 - 2, 0, GRID_DISPLAY_HEIGHT - 4, GRID_DISPLAY_HEIGHT - 1},
        size \in {1, 3} :
       Draw("Bubble.draw", "shark", Disc(x, y, size))

\* rabit.py Flower.draw, L71-77: a flower's centre is inside the canvas
Flower_draw ==
  /\ dsite \in {"none", "Flower.draw"}
  /\ \E x \in {0, GRID_DISPLAY_WIDTH - 1},
        y \in {0, GRID_DISPLAY_HEIGHT \div 2, GRID_DISPLAY_HEIGHT - 1},
        size \in {1, 3} :
       Draw("Flower.draw", "rabit", Disc(x, y, size))

\* stars.py update_display, L197-206: the trail of a shooting star, which
\* starts 5 pixels outside the canvas
shooting_star_trail ==
  /\ dsite \in {"none", "shooting star"}
  /\ \E x \in {0 - 5, 1, GRID_DISPLAY_WIDTH + 5}, y \in {0 - 5, 1, GRID_DISPLAY_HEIGHT - 1},
        cx \in {0 - 1, 1}, cy \in {0 - 1, 0} :
       Draw("shooting star", "stars", Trail(x, y, cx, cy, 3))

\* stars01.py update_display, L270-275: the body of a planet, which starts
\* 5 pixels outside the canvas; the loop over dx is the outer one
planet_body ==
  /\ dsite \in {"none", "planet"}
  /\ \E x \in {0 - 5, 0, GRID_DISPLAY_WIDTH}, y \in {0 - 1, GRID_DISPLAY_HEIGHT + 5},
        size \in {1, 2} :
       LET rows == Disc(y, x, size)
       IN Draw("planet", "stars01", [k \in 1..Len(rows) |-> <<rows[k][2], rows[k][1]>>])

InitDraw ==
  /\ DrawIdle
  /\ ResolverIdle
  /\ PassIdle
  /\ RunIdle
  /\ PopIdle
  /\ ColourIdle
  /\ ClearIdle
  /\ TopologyIdle
  /\ TextIdle
  /\ BallIdle
  /\ ScrollIdle

NextDraw ==
  \/ set_pixel
  \/ Bubble_draw
  \/ Flower_draw
  \/ shooting_star_trail
  \/ planet_body

SpecDraw == InitDraw /\ [][NextDraw]_vars

\* the coordinates of the last draw that its resolver maps to -1
Rejected ==
  {k \in 1..Len(dpts) : Resolve(ScriptOf(dsite), dpts[k][1], dpts[k][2]) = OUT_OF_RANGE}

\* C13: a pixel write addressed outside the canvas is a silent no-op:
\* strip.setPixelColor is never called with a negative index, a coordinate
\* whose get_pixel_index is -1 causes no call (the calls are as many as the
\* other coordinates), and a draw all of whose coordinates resolve to -1
\* leaves the device buffer unchanged.
C13_OutOfCanvasNoOp ==
  dsite # "none" =>
    /\ \A k \in 1..Len(dlog) : dlog[k] >= 0 /\ dlog[k] < LED_COUNT
    /\ Len(dlog) = Len(dpts) - Cardinality(Rejected)
    /\ Cardinality(Rejected) = Len(dpts) => dbuf = dprev

\* a bubble wholly above the top row was drawn after one inside the canvas
C13_Witness ==
  /\ dsite = "Bubble.draw"
  /\ dprev # {}
  /\ dpts # <<>>
  /\ Cardinality(Rejected) = Len(dpts)

(***************************************************************************)
(* SpecClear: consecutive calls of clear_display() / clear_strip() on a    *)
(* device whose buffer holds some frame, one device call per step.         *)
(***************************************************************************)
\* Color(0, 0, 0)
black == 0

\* main.py clear_strip, L64: self.strip.numPixels(); LED_COUNT in the
\* range(LED_COUNT) of the clear_display routines
numPixels_short == LED_COUNT - 1
numPixels == LED_COUNT

\* the buffers a clear is called on: black, a lit frame, lit ends, one pixel
Frames ==
  {{}, 0..(LED_COUNT - 1), {0, LED_COUNT - 1}, {LED_COUNT \div 2}}

InitClear ==
  /\ kpc = "idle" /\ ki = 0 /\ kcalls = <<>> /\ kprev = <<>>
  /\ klit \in Frames
  /\ kshown = klit /\ kn = 0
  /\ ResolverIdle
  /\ PassIdle
  /\ RunIdle
  /\ PopIdle
  /\ ColourIdle
  /\ DrawIdle
  /\ TopologyIdle
  /\ TextIdle
  /\ BallIdle
  /\ ScrollIdle

\* ball.py L72 (main.py L62): clear_display() is called, right after the
\* construction or after the call before it returned
clear_display ==
  /\ kpc \in {"idle", "returned"}
  /\ kn < MaxClears
  /\ kpc' = "loop"
  /\ ki' = 0
  /\ kprev' = kcalls
  /\ kcalls' = <<>>
  /\ UNCHANGED <<klit, kshown, kn, notClear>>

\* ball.py L73-74: self.strip.setPixelColor(i, Color(0, 0, 0))
clear_setPixelColor ==
  /\ kpc = "loop"
  /\ ki < numPixels
  /\ kcalls' = Append(kcalls, <<"setPixelColor", ki, black>>)
  /\ klit' = klit \ {ki}
  /\ ki' = ki + 1
  /\ UNCHANGED <<kpc, kprev, kshown, kn, notClear>>

\* ball.py L75: self.strip.show(), and the return
clear_show ==
  /\ kpc = "loop"
  /\ ki >= numPixels
  /\ kcalls' = Append(kcalls, <<"show">>)
  /\ kshown' = klit
  /\ kpc' = "returned"
  /\ kn' = kn + 1
  /\ UNCHANGED <<ki, kprev, klit, notClear>>

NextClear ==
  \/ clear_display
  \/ clear_setPixelColor
  \/ clear_show

SpecClear == InitClear /\ [][NextClear]_vars

\* setPixelColor(i, black) for i = 0 .. LED_COUNT-1 in increasing order,
\* then one show()
ClearSequence ==
  [k \in 1..(LED_COUNT + 1) |->
     IF k <= LED_COUNT THEN <<"setPixelColor", k - 1, black>> ELSE <<"show">>]

\* C20: clearing is idempotent at the device interface: each call of
\* clear_display() / clear_strip() issues setPixelColor(i, black) for
\* i = 0 .. LED_COUNT-1 in increasing order and then exactly one show(); a
\* call that follows another issues the same sequence as the one before it,
\* and each leaves the device all black.
C20_ClearIdempotent ==
  kpc = "returned" =>
    /\ kcalls = ClearSequence
    /\ kn >= 2 => kprev = kcalls
    /\ klit = {} /\ kshown = {}

\* the second of two consecutive clears has returned
C20_Witness ==
  /\ kpc = "returned"
  /\ kn = 2
  /\ kprev # <<>>

(***************************************************************************)
(* SpecTopology: one controller after construction.  Its topology          *)
(* attributes are state, so that a step which rewired them would show;     *)
(* the steps are resolver calls, pixel writes, flushes and clears in any   *)
(* order.                                                                  *)
(***************************************************************************)
\* ball.py BallDisplayController.__init__, L27-34
BallDisplayController ==
  [PANEL_WIDTH |-> 16, PANEL_HEIGHT |-> 16, GRID_COLS |-> 2, GRID_ROWS |-> 2,
   DISPLAY_WIDTH |-> 16 * 2, DISPLAY_HEIGHT |-> 16 * 2]

\* text03.py LEDDisplayController.__init__, L43-47
LEDDisplayController ==
  [PANEL_WIDTH |-> 16, PANEL_HEIGHT |-> 16, NUM_PANELS |-> 4,
   DISPLAY_WIDTH |-> 16 * 4, DISPLAY_HEIGHT |-> 16]

\* ball.py get_pixel_index, L36-70, reading the attributes of self
BallDisplayController_get_pixel_index(self, x, y) ==
  IF ~(0 <= x /\ x < self.DISPLAY_WIDTH /\ 0 <= y /\ y < self.DISPLAY_HEIGHT)
  THEN -1
  ELSE LET panel_x == x \div self.PANEL_WIDTH
           panel_y == y \div self.PANEL_HEIGHT
           panel_index == IF panel_y = 0 THEN 2 + panel_x ELSE panel_x
           local_x0 == x % self.PANEL_WIDTH
           local_y == y % self.PANEL_HEIGHT
           local_x == IF local_y % 2 = 1 THEN self.PANEL_WIDTH - 1 - local_x0
                      ELSE local_x0
           panel_offset == panel_index * LED_PANEL_SIZE
           local_offset == (local_y * self.PANEL_WIDTH) + local_x
       IN panel_offset + local_offset

\* text03.py get_pixel_index, L117-132, reading the attributes of self
LEDDisplayController_get_pixel_index(self, x, y) ==
  IF ~(0 <= x /\ x < self.DISPLAY_WIDTH /\ 0 <= y /\ y < self.DISPLAY_HEIGHT)
  THEN -1
  ELSE LET yf == self.DISPLAY_HEIGHT - 1 - y
           panel_x == x \div self.PANEL_WIDTH
           local_x0 == x % self.PANEL_WIDTH
           local_y == yf
           local_x == IF local_y % 2 = 1 THEN self.PANEL_WIDTH - 1 - local_x0
                      ELSE local_x0
           panel_offset == panel_x * LED_PANEL_SIZE
           local_offset == (local_y * self.PANEL_WIDTH) + local_x
       IN panel_offset + local_offset

Constructed(s) ==
  IF s = "ball" THEN BallDisplayController ELSE LEDDisplayController

\* coordinates the resolver is called on: in both canvases, in the second
\* panel, below the chain canvas, left of the canvas
ProbeX == {-1, 0, PANEL_WIDTH + 1}
ProbeY == {0, 1, PANEL_HEIGHT}

InitTopology ==
  /\ oscript \in {"ball", "text03"}
  /\ oself = Constructed(oscript)
  /\ obuf = {} /\ oflushes = 0
  /\ ofirst = <<>> /\ ocall = <<>>
  /\ opc = "init"
  /\ ResolverIdle
  /\ PassIdle
  /\ RunIdle
  /\ PopIdle
  /\ ColourIdle
  /\ DrawIdle
  /\ ClearIdle
  /\ TextIdle
  /\ BallIdle
  /\ ScrollIdle

\* a call that also rewires the controller: the panel becomes half as wide
get_pixel_index_rewiring ==
  \E x \in ProbeX, y \in ProbeY :
    LET index == IF oscript = "ball"
                 THEN BallDisplayController_get_pixel_index(oself, x, y)
                 ELSE LEDDisplayController_get_pixel_index(oself, x, y)
        call == [x |-> x, y |-> y, index |-> index,
                 self |-> oself, buf |-> obuf, flushes |-> oflushes]
    IN /\ ocall' = call
       /\ ofirst' = (IF ofirst = <<>> THEN call ELSE ofirst)
       /\ oself' = [oself EXCEPT !.PANEL_WIDTH = 8]
       /\ opc' = "get_pixel_index"
       /\ UNCHANGED <<oscript, obuf, oflushes, notTopology>>

\* controller.get_pixel_index(x, y)
get_pixel_index ==
  \E x \in ProbeX, y \in ProbeY :
    LET index == IF oscript = "ball"
                 THEN BallDisplayController_get_pixel_index(oself, x, y)
                 ELSE LEDDisplayController_get_pixel_index(oself, x, y)
        call == [x |-> x, y |-> y, index |-> index,
                 self |-> oself, buf |-> obuf, flushes |-> oflushes]
    IN /\ ocall' = call
       /\ ofirst' = (IF ofirst = <<>> THEN call ELSE ofirst)
       /\ opc' = "get_pixel_index"
       /\ UNCHANGED <<oscript, oself, obuf, oflushes, notTopology>>

\* ball.py display_ball, L108-109: if pixel_index >= 0:
\* self.strip.setPixelColor(pixel_index, ...)
topology_setPixelColor ==
  /\ opc = "get_pixel_index"
  /\ ocall.index >= 0
  /\ obuf' = obuf \cup {ocall.index}
  /\ opc' = "setPixelColor"
  /\ UNCHANGED <<oscript, oself, oflushes, ofirst, ocall, notTopology>>

\* ball.py display_ball, L111: self.strip.show()
topology_show ==
  /\ opc # "show"
  /\ oflushes < MaxFlushes
  /\ oflushes' = oflushes + 1
  /\ opc' = "show"
  /\ UNCHANGED <<oscript, oself, obuf, ofirst, ocall, notTopology>>

\* ball.py clear_display, L72-75
topology_clear_display ==
  /\ opc # "clear_display"
  /\ oflushes < MaxFlushes
  /\ obuf' = {}
  /\ oflushes' = oflushes + 1
  /\ opc' = "clear_display"
  /\ UNCHANGED <<oscript, oself, ofirst, ocall, notTopology>>

NextTopology ==
  \/ get_pixel_index
  \/ topology_setPixelColor
  \/ topology_show
  \/ topology_clear_display

SpecTopology == InitTopology /\ [][NextTopology]_vars

\* C21: the resolver is a pure function of (x, y) over an immutable
\* topology: a call leaves the controller's attributes and the device as it
\* found them, a call with the coordinates of an earlier call returns the
\* index that call returned, whatever writes, flushes and clears came in
\* between, and the attributes stay as __init__ set them.
C21_ResolverPure ==
  /\ oscript # "none" => oself = Constructed(oscript)
  /\ opc = "get_pixel_index" =>
       /\ oself = ocall.self
       /\ obuf = ocall.buf
       /\ oflushes = ocall.flushes
  /\ (ocall # <<>> /\ ocall.x = ofirst.x /\ ocall.y = ofirst.y) =>
       ocall.index = ofirst.index

\* the first call's coordinates were resolved again after a write, a clear
\* and a flush
C21_Witness ==
  /\ opc = "get_pixel_index"
  /\ ocall.flushes = 2 /\ ofirst.flushes = 0
  /\ ocall.x = ofirst.x /\ ocall.y = ofirst.y
  /\ ocall.index = ofirst.index
  /\ ocall.index > 0
  /\ ocall.buf # {}

(***************************************************************************)
(* SpecText: the menu of text.py.  Each choice starts an animation on a    *)
(* new text image; an animation runs frames until its duration is over     *)
(* and returns to the menu.  The device buffer is the set of indices whose *)
(* pixel is not black; nothing but the animations writes it.               *)
(***************************************************************************)
\* canvas pixels followed: one in the first panel, one on an odd row of the
\* second, the last one
TextPixels == {<<0, 0>>, <<PANEL_WIDTH + 1, 1>>, <<TOTAL_WIDTH - 1, PANEL_HEIGHT - 1>>}

\* text.py create_centered_text_image, L53-89: the pixels of the image that
\* are not black, for the texts the user may enter
TextImages == SUBSET TextPixels \ {{}}

\* the device indices of a set of canvas pixels
Indices(pixels) == {text_get_pixel_index(p[1], p[2]) : p \in pixels}

InitText ==
  /\ xpc = "menu" /\ ximage = {} /\ xlit = {} /\ xshown = {}
  /\ xframes = 0 /\ xchoices = 0
  /\ ResolverIdle
  /\ PassIdle
  /\ RunIdle
  /\ PopIdle
  /\ ColourIdle
  /\ DrawIdle
  /\ ClearIdle
  /\ TopologyIdle
  /\ BallIdle
  /\ ScrollIdle

\* text.py main, L190-206: choice 1, 2 or 3 and the text; the animation
\* builds its image (L93-94, L115-116, L138-139)
text_choice ==
  /\ xpc = "menu"
  /\ xchoices < MaxChoices
  /\ \E choice \in {"pulse", "rainbow", "sparkle"}, image \in TextImages :
       /\ xpc' = choice
       /\ ximage' = image
  /\ xframes' = 0
  /\ xchoices' = xchoices + 1
  /\ UNCHANGED <<xlit, xshown, notText>>

\* text.py pulse_animation, L97-111: every pixel of the canvas is written,
\* with the image's colour times the intensity (0.2 to 1.0); then show()
pulse_frame ==
  /\ xpc = "pulse"
  /\ xframes < MaxFrames
  /\ xlit' = Indices(ximage)
  /\ xshown' = xlit'
  /\ xframes' = xframes + 1
  /\ UNCHANGED <<xpc, ximage, xchoices, notText>>

\* text.py rainbow_animation, L119-134: only the pixels where the image is
\* not black are written, with the rainbow colour; then show()
rainbow_frame ==
  /\ xpc = "rainbow"
  /\ xframes < MaxFrames
  /\ xlit' = xlit \cup Indices(ximage)
  /\ xshown' = xlit'
  /\ xframes' = xframes + 1
  /\ UNCHANGED <<xpc, ximage, xchoices, notText>>

\* text.py sparkle_animation, L142-159: only the pixels where the image is
\* not black are written; then show()
sparkle_frame ==
  /\ xpc = "sparkle"
  /\ xframes < MaxFrames
  /\ xlit' = xlit \cup Indices(ximage)
  /\ xshown' = xlit'
  /\ xframes' = xframes + 1
  /\ UNCHANGED <<xpc, ximage, xchoices, notText>>

\* the duration is over: the animation returns to the menu loop
text_animation_returns ==
  /\ xpc \in {"pulse", "rainbow", "sparkle"}
  /\ xframes > 0
  /\ xpc' = "menu"
  /\ UNCHANGED <<ximage, xlit, xshown, xframes, xchoices, notText>>

NextText ==
  \/ text_choice
  \/ pulse_frame
  \/ rainbow_frame
  \/ sparkle_frame
  \/ text_animation_returns

SpecText == InitText /\ [][NextText]_vars

\* C23: at every flush of a text animation of text.py every pixel that the
\* text on display does not cover is black, after any sequence of menu
\* choices: no pixel lit by an earlier animation stays lit.
C23_AsStated ==
  (xpc \in {"pulse", "rainbow", "sparkle"} /\ xframes > 0) =>
     xshown \subseteq Indices(ximage)

(***************************************************************************)
(* SpecBall and SpecBounce: the loop of NeoPixelController.bouncing_ball,  *)
(* main.py L193-253, one step of the loop body per action.  A float is a   *)
(* whole number of 1/Milli.  SpecBall starts from the values the method    *)
(* sets; SpecBounce starts the loop on any position and velocity.          *)
(***************************************************************************)
\* the float 1.0
Milli == 1000

\* main.py L199-201
gravity == 150
bounce_damping == 900
edge_damping == 980

\* main.py L211-229 without the test for the top row
boundary_collisions_no_top(x, y, dx, dy) ==
  LET bottom == y > (PANEL_HEIGHT - 1) * Milli
      y1 == IF bottom THEN (PANEL_HEIGHT - 1) * Milli ELSE y
      dy1 == IF bottom THEN int((0 - dy) * bounce_damping, Milli) ELSE dy
      dx1 == IF bottom THEN int(dx * edge_damping, Milli) ELSE dx
      right == x >= (TOTAL_WIDTH - 1) * Milli
      x3 == IF right THEN (TOTAL_WIDTH - 1) * Milli ELSE x
      dx3 == IF right THEN int((0 - dx1) * bounce_damping, Milli) ELSE dx1
      left == x3 < 0
      x4 == IF left THEN 0 ELSE x3
      dx4 == IF left THEN int((0 - dx3) * bounce_damping, Milli) ELSE dx3
  IN [x |-> x4, y |-> y1, dx |-> dx4, dy |-> dy1, bottom |-> bottom]

\* main.py L211-229: the four boundary tests, in the order of the code
boundary_collisions(x, y, dx, dy) ==
  LET bottom == y > (PANEL_HEIGHT - 1) * Milli
      y1 == IF bottom THEN (PANEL_HEIGHT - 1) * Milli ELSE y
      dy1 == IF bottom THEN int((0 - dy) * bounce_damping, Milli) ELSE dy
      dx1 == IF bottom THEN int(dx * edge_damping, Milli) ELSE dx
      top == y1 < 0
      y2 == IF top THEN 0 ELSE y1
      dy2 == IF top THEN int((0 - dy1) * bounce_damping, Milli) ELSE dy1
      dx2 == IF top THEN int(dx1 * edge_damping, Milli) ELSE dx1
      right == x >= (TOTAL_WIDTH - 1) * Milli
      x3 == IF right THEN (TOTAL_WIDTH - 1) * Milli ELSE x
      dx3 == IF right THEN int((0 - dx2) * bounce_damping, Milli) ELSE dx2
      left == x3 < 0
      x4 == IF left THEN 0 ELSE x3
      dx4 == IF left THEN int((0 - dx3) * bounce_damping, Milli) ELSE dx3
  IN [x |-> x4, y |-> y2, dx |-> dx4, dy |-> dy2, bottom |-> bottom]

BallRest ==
  /\ ResolverIdle
  /\ PassIdle
  /\ RunIdle
  /\ PopIdle
  /\ ColourIdle
  /\ DrawIdle
  /\ ClearIdle
  /\ TopologyIdle
  /\ TextIdle
  /\ ScrollIdle

\* main.py L195-202
InitBall ==
  /\ bpc = "physics"
  /\ bx = (TOTAL_WIDTH \div 2) * Milli
  /\ by = 8 * Milli
  /\ bdx = 4 * Milli
  /\ bdy = (3 * Milli) \div 2
  /\ btrail = <<>>
  /\ bleft = <<>> /\ bused = <<>>
  /\ BallRest

\* the loop body entered with a position of the canvas and a velocity of
\* either sign, slow or faster than the canvas is wide
InitBounce ==
  /\ bpc = "physics"
  /\ bx \in {0, (TOTAL_WIDTH \div 2) * Milli, (TOTAL_WIDTH - 1) * Milli}
  /\ by \in {0, 8 * Milli, (PANEL_HEIGHT - 1) * Milli}
  /\ bdx \in {0 - 70 * Milli, 0 - 4 * Milli, Milli \div 2, 4 * Milli, 70 * Milli}
  /\ bdy \in {0 - 20 * Milli, 0 - (3 * Milli) \div 2, (3 * Milli) \div 2, 20 * Milli}
  /\ btrail = <<>>
  /\ bleft = <<>> /\ bused = <<>>
  /\ BallRest

\* main.py L207-209: x += dx; y += dy; dy += gravity
physics_update ==
  /\ bpc = "physics"
  /\ bx' = bx + bdx
  /\ by' = by + bdy
  /\ bdy' = bdy + gravity
  /\ bused' = <<bdx, bdy>>
  /\ bpc' = "collide"
  /\ UNCHANGED <<bdx, btrail, bleft, notBall>>

\* main.py L211-229
ball_boundary_collisions ==
  /\ bpc = "collide"
  /\ LET r == boundary_collisions(bx, by, bdx, bdy)
     IN /\ bx' = r.x /\ by' = r.y /\ bdx' = r.dx /\ bdy' = r.dy
        /\ bleft' = <<r.dx, r.dy, r.bottom>>
  /\ bpc' = "trail"
  /\ UNCHANGED <<btrail, bused, notBall>>

\* main.py L231-233: trail.insert(0, (x, y)); trail = trail[:8]
update_trail ==
  /\ bpc = "trail"
  /\ btrail' = SubSeq(<<(<<bx, by>>)>> \o btrail, 1, min(8, Len(btrail) + 1))
  /\ bpc' = "render"
  /\ UNCHANGED <<bx, by, bdx, bdy, bleft, bused, notBall>>

\* main.py L235-250: clear_strip() and the glow of every trail entry; the
\* loops `for dx in [-1, 0, 1]: for dy in [-1, 0, 1]:` assign the method's
\* dx and dy, which hold 1 and 1 when a trail entry has been drawn
ball_render ==
  /\ bpc = "render"
  /\ IF btrail # <<>>
     THEN bdx' = 1 * Milli /\ bdy' = 1 * Milli
     ELSE UNCHANGED <<bdx, bdy>>
  /\ bpc' = "show"
  /\ UNCHANGED <<bx, by, btrail, bleft, bused, notBall>>

\* main.py L252-253: strip.show(); time.sleep(0.02), and the loop test
ball_show ==
  /\ bpc = "show"
  /\ bpc' = "physics"
  /\ UNCHANGED <<bx, by, bdx, bdy, btrail, bleft, bused, notBall>>

NextBall ==
  \/ physics_update
  \/ ball_boundary_collisions
  \/ update_trail
  \/ ball_render
  \/ ball_show

SpecBall == InitBall /\ [][NextBall]_vars

SpecBounce == InitBounce /\ [][NextBall]_vars

\* C24: the velocity a tick's position update uses is the velocity the
\* physics step of the tick before left; on the tick after the ball was
\* clamped to the bottom row the vertical velocity is negative.
C24_AsStated ==
  (bpc = "collide" /\ bleft # <<>>) =>
     /\ bused = <<bleft[1], bleft[2]>>
     /\ bleft[3] => bused[2] < 0

InCanvasPosition(p) ==
  /\ 0 <= p[1] /\ p[1] <= (TOTAL_WIDTH - 1) * Milli
  /\ 0 <= p[2] /\ p[2] <= (PANEL_HEIGHT - 1) * Milli

\* C30: after the boundary step of every tick 0 <= x <= TOTAL_WIDTH - 1 and
\* 0 <= y <= PANEL_HEIGHT - 1, for any velocity; the trail holds at most 8
\* positions, each inside the canvas.
C30_BallInCanvas ==
  /\ bpc \in {"trail", "render", "show", "physics"} => InCanvasPosition(<<bx, by>>)
  /\ Len(btrail) <= 8
  /\ \A i \in 1..Len(btrail) : InCanvasPosition(btrail[i])

\* a ball thrown past the top left corner was put back on it, and the
\* trail is full
C30_Witness ==
  /\ bpc = "render"
  /\ Len(btrail) = 8
  /\ btrail[8] = <<0, 0>>
  /\ bx > 0

(***************************************************************************)
(* SpecLive: a population over an unbounded run of its main loop, for the  *)
(* properties that need the run to go on.  Only t - last_spawn enters the  *)
(* code's spawn test, so the clock is re-based at every spawn              *)
(* (last_spawn stays 0) and stops counting once the spawn is due; one      *)
(* iteration takes 0.1 s.  One object of the run is followed: its born     *)
(* field is 1, that of every other object 0.  The main loop is             *)
(* `while True`, so a tick is always taken again: weak fairness.           *)
(***************************************************************************)
Followed(l) == \E i \in 1..Len(l) : l[i].born = 1

\* the new object of a tick may be the one the run follows from now on, when
\* the run was following none before the tick
Follow(l, n, mark) ==
  IF mark /\ Len(l) > n /\ ~Followed(objs) THEN [l EXCEPT ![Len(l)].born = 1] ELSE l

\* the removal step and the updates of update_display, in the order of each
\* script (stars.py L194-195, stars0.py L174, stars01.py L245-246,
\* shark.py L158-160, rabit.py L152)
removal_step(l) ==
  CASE kind = "shooting_star" -> UpdateLife(SelectSeq(l, shooting_alive))
    [] kind = "comet" -> UpdateLife(SelectSeq(l, comet_alive))
    [] kind = "planet" -> SelectSeq(UpdateLife(l), planet_alive)
    [] kind = "bubble" -> UpdateY(SelectSeq(l, above_bottom))
    [] kind = "flower" -> SelectSeq(l, above_bottom)

\* add_shooting_star(), add_comet(), add_planet(), add_bubble(), add_flower()
add_object(l, choice, coin) ==
  CASE kind = "shooting_star" -> add_shooting_star(l, choice)
    [] kind = "comet" -> add_comet(l, choice)
    [] kind = "planet" -> add_planet(l, choice, coin)
    [] kind = "bubble" -> add_bubble(l, choice)
    [] kind = "flower" -> add_flower(l, choice)

\* the random speed, or row, of a new object: the slowest speed of a moving
\* kind (its objects live longest), every row of FlowerRows for a flower
Slowest(S) == CHOOSE x \in S : \A y \in S : x <= y

Choices(k) ==
  CASE k = "shooting_star" -> {Slowest(ShootingSpeeds)}
    [] k = "comet" -> {Slowest(CometSpeeds)}
    [] k = "planet" -> {Slowest(PlanetSpeeds)}
    [] k = "bubble" -> {Slowest(BubbleSpeeds)}
    [] k = "flower" -> FlowerRows

InitLive ==
  /\ kind \in Kinds
  /\ objs = <<>>
  /\ t = (IF kind = "planet" THEN planet_interval + 1 ELSE 0)
  /\ last_spawn = 0
  /\ dt = 1
  /\ ticks = 0
  /\ attempt = "none"
  /\ before = [objs |-> <<>>, last |-> 0]
  /\ gone = 0
  /\ spawned = <<0, 0>>
  /\ ResolverIdle
  /\ PassIdle
  /\ RunIdle
  /\ ColourIdle
  /\ DrawIdle
  /\ ClearIdle
  /\ TopologyIdle
  /\ TextIdle
  /\ BallIdle
  /\ ScrollIdle

\* one iteration of a script's main loop: update_display(current_time)
live_update_display ==
  /\ LET current_time == min(t + dt, Interval(kind) + 1)
         kept == removal_step(objs)
     IN \E coin \in BOOLEAN, coin2 \in BOOLEAN, choice \in Choices(kind),
           mark \in BOOLEAN :
          IF current_time - last_spawn > Interval(kind) /\ (coin \/ kind = "planet")
          THEN /\ objs' = Follow(add_object(kept, choice, coin2), Len(kept), mark)
               /\ t' = (IF kind = "planet" /\ Len(objs') = Len(kept)
                        THEN current_time ELSE 0)
          ELSE /\ objs' = kept
               /\ t' = current_time
  /\ UNCHANGED <<kind, last_spawn, dt, ticks, attempt, before, gone, spawned, notPop>>

NextLive == live_update_display

SpecLive == InitLive /\ [][NextLive]_vars /\ WF_vars(live_update_display)

\* C26: under fair progress of the ticks every spawned object is eventually
\* removed from its live list: whenever the run follows an object, a later
\* state of the run holds it no more.
C26_AsStated == Followed(objs) ~> ~Followed(objs)

(***************************************************************************)
(* SpecScroll: the frame loop of the horizontally scrolling scripts.  The  *)
(* text image is wider than the canvas; frame `offset` shows the image     *)
(* columns offset .. offset + DISPLAY_WIDTH - 1.  The device buffer keeps, *)
(* per physical index, the offset of the frame that wrote it last (the     *)
(* colour a frame writes depends on the image and on the frame's time),    *)
(* -1 for the black of clear_display and of a new strip.                   *)
(***************************************************************************)
ScrollScripts == {"text03", "text04", "textfire"}

\* drawn widths of a text, from two pixels up
TextWidths == 2..MaxTextWidth

\* text03.py L52-53
text03_word_spacing == 11
text03_extra_end_space == 28
\* text04.py L83
text04_word_spacing == CHAIN_DISPLAY_WIDTH \div 5

\* image.shape[1]: the width of the image the script prepares for a text
ImageWidth(s, text_width) ==
  CASE s = "text03" ->
         CHAIN_DISPLAY_WIDTH + (text_width + text03_word_spacing) + text03_extra_end_space
    [] s = "text04" -> CHAIN_DISPLAY_WIDTH + (text_width + text04_word_spacing)
    [] s = "textfire" -> CHAIN_DISPLAY_WIDTH * 3

\* the number of offsets of one pass of the frame loop: range(...)
ScrollOffsets(s, text_width) ==
  IF s = "textfire"
  THEN ImageWidth(s, text_width) - CHAIN_DISPLAY_WIDTH + text_width
  ELSE ImageWidth(s, text_width)

Blank == [i \in 0..(LED_COUNT - 1) |-> -1]

\* the canvas columns whose source column lies inside the image
SourceInside(image_width, offset) ==
  {x \in 0..(CHAIN_DISPLAY_WIDTH - 1) : 0 <= x + offset /\ x + offset < image_width}

\* a frame loop that blacks out the columns it has no source for
scroll_display_frame_blanking(s, image_width, offset, pixels) ==
  LET written == {Resolve(s, x, y) : x \in SourceInside(image_width, offset),
                                     y \in 0..(CHAIN_DISPLAY_HEIGHT - 1)}
  IN [i \in DOMAIN pixels |-> IF i \in written THEN offset ELSE -1]

\* display_frame(image, offset, t): the buffer after its pixel loops
scroll_display_frame(s, image_width, offset, pixels) ==
  LET written == {Resolve(s, x, y) : x \in SourceInside(image_width, offset),
                                     y \in 0..(CHAIN_DISPLAY_HEIGHT - 1)}
  IN [i \in DOMAIN pixels |-> IF i \in written /\ i >= 0 THEN offset ELSE pixels[i]]

InitScroll ==
  /\ fscript \in ScrollScripts
  /\ ftext \in TextWidths
  /\ foffset = -1
  /\ fbuf = Blank
  /\ fprev = Blank
  /\ fpc = "scroll"
  /\ ResolverIdle
  /\ PassIdle
  /\ RunIdle
  /\ PopIdle
  /\ ColourIdle
  /\ DrawIdle
  /\ ClearIdle
  /\ TopologyIdle
  /\ TextIdle
  /\ BallIdle

\* one iteration of `for offset in range(...)`: display_frame and its show()
display_frame ==
  /\ fpc = "scroll"
  /\ foffset + 1 < ScrollOffsets(fscript, ftext)
  /\ foffset' = foffset + 1
  /\ fprev' = fbuf
  /\ fbuf' = scroll_display_frame(fscript, ImageWidth(fscript, ftext), foffset + 1, fbuf)
  /\ UNCHANGED <<fscript, ftext, fpc, notScroll>>

\* text03.py, text04.py: the for loop ends and `while True` starts it again
scroll_again ==
  /\ fpc = "scroll"
  /\ fscript \in {"text03", "text04"}
  /\ foffset + 1 = ScrollOffsets(fscript, ftext)
  /\ foffset' = -1
  /\ UNCHANGED <<fscript, ftext, fbuf, fprev, fpc, notScroll>>

\* textfire.py: scroll_text returns; display_text_sequence clears the display
\* and scrolls the next word
next_word ==
  /\ fpc = "scroll"
  /\ fscript = "textfire"
  /\ foffset + 1 = ScrollOffsets(fscript, ftext)
  /\ \E text_width \in TextWidths : ftext' = text_width
  /\ foffset' = -1
  /\ fbuf' = Blank
  /\ fprev' = fbuf
  /\ UNCHANGED <<fscript, fpc, notScroll>>

NextScroll == display_frame \/ scroll_again \/ next_word

SpecScroll == InitScroll /\ [][NextScroll]_vars

\* C29: a frame of the scrolling scripts writes the device pixels of canvas
\* column x exactly when 0 <= x + offset < image width; the pixels of every
\* other column are as the frame before left them, neither black nor
\* rewritten.
C29_FrameEffect ==
  (fpc = "scroll" /\ foffset >= 0) =>
     \A x \in 0..(CHAIN_DISPLAY_WIDTH - 1), y \in 0..(CHAIN_DISPLAY_HEIGHT - 1) :
        LET i == Resolve(fscript, x, y)
        IN IF 0 <= x + foffset /\ x + foffset < ImageWidth(fscript, ftext)
           THEN fbuf[i] = foffset
           ELSE fbuf[i] = fprev[i]

\* the last frame of a pass of textfire.py: the rightmost column still holds
\* what an earlier frame of the pass wrote
C29_Witness ==
  /\ fpc = "scroll" /\ fscript = "textfire"
  /\ foffset = ScrollOffsets(fscript, ftext) - 1
  /\ LET i == Resolve(fscript, CHAIN_DISPLAY_WIDTH - 1, 0)
     IN /\ fbuf[i] = fprev[i]
        /\ 0 <= fbuf[i] /\ fbuf[i] < foffset

====
